---- MODULE Spec2Model ----
(***************************************************************************)
(* A state-machine model of the SQLite-backed resource cache of            *)
(* src/src/mcp/client/cache.rs: construction (validation, pool building,   *)
(* init_schema with its process-wide registry) and the store operations    *)
(* (store, get, remove, clear, cleanup_expired) with their clock, rows and *)
(* in-memory analytics.                                                    *)
(*                                                                         *)
(* Conventions.  Option<T> is a sequence: <<>> is None, <<v>> is Some(v).  *)
(* A path is the sequence of its segments, "/" first when it is absolute.  *)
(* A text (an error message) is a sequence of words; a content type is a   *)
(* sequence of characters.                                                 *)
(***************************************************************************)
EXTENDS Integers, Sequences, FiniteSets, TLC

VARIABLES
    pc,             \* per instance: the step of ResourceCache::new it is at
    cfg,            \* per instance: its CacheConfig
    dbKey,          \* per instance: db_path of init_schema (the normalized path)
    result,         \* per instance: what new() returned
    pool,           \* per instance: the r2d2 pool it owns
    curVer,         \* per instance: user_version read by Migrations::to_latest
    migResult,      \* per instance: what Migrations::to_latest returned
    registry,       \* INITIALIZED_DATABASES: the keys marked initialized
    trackerLock,    \* the Mutex around it: the instance that holds it, or 0
    dirs,           \* the directories that exist
    files,          \* the storage files that exist, each with its user_version
    migrationRuns,  \* per key: how often the pragma/migration step was run
    clock,          \* Utc::now(), in sub-millisecond units
    ticks,          \* how often the clock has advanced
    rows,           \* the rows of table resources
    history,        \* the rows of table cache_analytics
    analytics,      \* per instance: its CacheAnalytics
    op,             \* per instance: the operation it is running, and what the last one returned
    nextId,         \* the next Uuid::new_v4()
    opsDone,        \* operations started so far
    lastWrite,      \* per URI: the last store not yet removed, cleared or overwritten
    tasks           \* the closures given to spawn_blocking, one by one

initVars == <<pc, cfg, dbKey, result, pool, curVer, migResult, registry, trackerLock,
              dirs, files, migrationRuns>>

storeVars == <<clock, ticks, rows, history, analytics, op, nextId, opsDone,
               lastWrite, tasks>>

vars == <<initVars, storeVars>>

None == <<>>
Some(v) == <<v>>
IsSome(o) == Len(o) = 1
Unwrap(o) == o[1]

----------------------------------------------------------------------------
(* Bounds of the model *)

\* Instances constructed concurrently in one process.
NInst == 2

\* Clock units per millisecond: the clock is finer than the stored timestamps.
SubPerMs == 2

\* How often the clock advances in one behaviour.
MaxTicks == 2

\* How many operations are started in one behaviour.
MaxOps == 3

\* How many ".", ".." or directory segments a path spelling has before its
\* file name.
MaxSegs == 2

Inst == 1..NInst

----------------------------------------------------------------------------
(* Paths and the file system *)

Root == "/"
CurDir == "."
ParentDir == ".."

\* std::env::current_dir()
Cwd == <<Root, "w">>

IsAbsolute(p) == Len(p) > 0 /\ p[1] = Root

RECURSIVE DropCurDir(_)
DropCurDir(s) ==
    IF s = <<>> THEN <<>>
    ELSE IF Head(s) = CurDir THEN DropCurDir(Tail(s))
    ELSE <<Head(s)>> \o DropCurDir(Tail(s))

\* Path::components(): a "." is kept only as the first segment of a relative
\* path; every other "." is dropped.
Components(p) ==
    IF p = <<>> THEN <<>>
    ELSE <<Head(p)>> \o DropCurDir(Tail(p))

\* PathBuf::join: an absolute argument replaces the base.
Join(base, p) == IF IsAbsolute(p) THEN p ELSE base \o p

Parent(p) == IF Len(p) <= 1 THEN p ELSE SubSeq(p, 1, Len(p) - 1)

RECURSIVE NormFold(_, _)
NormFold(comps, acc) ==
    IF comps = <<>> THEN acc
    ELSE LET c == Head(comps) IN
         IF c = CurDir THEN NormFold(Tail(comps), acc)
         ELSE IF c = ParentDir
              THEN NormFold(Tail(comps),
                            IF acc = <<>> THEN acc
                            ELSE SubSeq(acc, 1, Len(acc) - 1))
              ELSE NormFold(Tail(comps), acc \o <<c>>)

normalize_path_components(path) == NormFold(Components(path), <<>>)

\* realpath(3) without symbolic links: every segment walked must exist, ".."
\* at the root stays at the root.  `last` tells whether the final segment has
\* to exist too.  None when the walk fails.
RECURSIVE Walk(_, _, _, _, _)
Walk(segs, cur, ds, fs, last) ==
    IF segs = <<>> THEN Some(cur)
    ELSE LET s == Head(segs) IN
         IF cur \notin ds THEN None
         ELSE IF s = CurDir \/ s = Root THEN Walk(Tail(segs), cur, ds, fs, last)
         ELSE IF s = ParentDir THEN Walk(Tail(segs), Parent(cur), ds, fs, last)
         ELSE LET nxt == cur \o <<s>> IN
              IF nxt \in ds \/ nxt \in fs \/ (Len(segs) = 1 /\ ~last)
              THEN Walk(Tail(segs), nxt, ds, fs, last)
              ELSE None

\* Path::canonicalize
Canonicalize(p, ds, fs) ==
    IF p = <<>> THEN None
    ELSE Walk(Join(Cwd, p), <<Root>>, ds, fs, TRUE)

\* The file a connection of SqliteConnectionManager::file(path) opens or
\* creates: its directory has to exist, and it must not be a directory.
OpenTarget(p, ds, fs) ==
    IF p = <<>> \/ p[Len(p)] \in {CurDir, ParentDir, Root} THEN None
    ELSE LET w == Walk(Join(Cwd, p), <<Root>>, ds, fs, FALSE) IN
         IF IsSome(w) /\ Unwrap(w) \notin ds THEN w ELSE None

\* A normalization that resolves "." and ".." but does not make a relative
\* path absolute.
normalize_db_path_lexical(db_path, ds, fs) ==
    LET canonical == Canonicalize(db_path, ds, fs) IN
    IF IsSome(canonical) THEN Unwrap(canonical)
    ELSE normalize_path_components(db_path)

\* normalize_db_path, lines 855-880
normalize_db_path(db_path, ds, fs) ==
    LET canonical == Canonicalize(db_path, ds, fs) IN
    IF IsSome(canonical) THEN Unwrap(canonical)
    ELSE IF ~IsAbsolute(db_path)
         THEN normalize_path_components(Join(Cwd, db_path))
         ELSE normalize_path_components(db_path)

\* Path::parent of the normalized path, for create_dir_all
KeyParent(k) == IF Len(k) <= 1 THEN None ELSE Some(SubSeq(k, 1, Len(k) - 1))

RECURSIVE Prefixes(_)
Prefixes(p) == IF Len(p) <= 1 THEN {p} ELSE {p} \cup Prefixes(Parent(p))

\* std::fs::create_dir_all
create_dir_all(p, ds) == ds \cup (IF IsAbsolute(p) THEN Prefixes(p) ELSE {})

----------------------------------------------------------------------------
(* Configuration and the connection pool *)

\* Migrations::max_schema_version for MIGRATIONS: it holds one migration.
LatestVersion == 1

\* r2d2::Builder's default max_size, which Pool::builder() starts from.
R2d2DefaultMaxSize == 10

\* A pool: its bounds, the connections it has open (conns) and how many of
\* them are checked out (out).
NoPool == [built |-> FALSE, max_size |-> 0, min_idle |-> 0, conns |-> 0,
           out |-> 0]

\* A pool that opens a connection for every caller.
CanCheckout_unbounded(p) == TRUE

\* r2d2 Pool::get, as with_connection calls it (line 263): it hands out an
\* idle connection, or opens one while fewer than max_size are open;
\* otherwise the caller waits, and fails with the timeout.
CanCheckout(p) == p.out < p.conns \/ p.conns < p.max_size

PoolGet(p) ==
    [p EXCEPT !.out = @ + 1,
              !.conns = IF p.out + 1 > p.conns THEN p.out + 1 ELSE p.conns]

\* The PooledConnection is dropped at the end of the closure (line 269).
PoolPut(p) == [p EXCEPT !.out = @ - 1]

NoConfig == [database_path |-> <<>>, pool_min_connections |-> None,
             pool_max_connections |-> None, pool_connection_timeout |-> None,
             pool_max_lifetime |-> None]

NoOutcome == [ok |-> TRUE, msg |-> <<>>]

\* A validation that forgets the pool bounds.
ConfigInvalid_path_only(c) == c.database_path = <<>>

\* ResourceCache::new, lines 201-216: the two validations.
ConfigInvalid(c) ==
    \/ c.database_path = <<>>
    \/ /\ IsSome(c.pool_min_connections)
       /\ IsSome(c.pool_max_connections)
       /\ Unwrap(c.pool_min_connections) > Unwrap(c.pool_max_connections)

PoolMaxSize(c) ==
    IF IsSome(c.pool_max_connections) THEN Unwrap(c.pool_max_connections)
    ELSE R2d2DefaultMaxSize

\* r2d2 fills min_idle with max_size when it was not set.
PoolMinIdle(c) ==
    IF IsSome(c.pool_min_connections) THEN Unwrap(c.pool_min_connections)
    ELSE PoolMaxSize(c)

\* The assertions of r2d2::Builder that the calls of lines 223-240 run into:
\* max_size(0), connection_timeout(0) and max_lifetime(Some(0)) panic, and
\* build panics when min_idle is larger than max_size.
BuilderPanics(c) ==
    \/ IsSome(c.pool_max_connections) /\ Unwrap(c.pool_max_connections) = 0
    \/ IsSome(c.pool_connection_timeout) /\ Unwrap(c.pool_connection_timeout) = 0
    \/ IsSome(c.pool_max_lifetime) /\ Unwrap(c.pool_max_lifetime) = 0
    \/ IsSome(c.pool_min_connections)
       /\ Unwrap(c.pool_min_connections) > PoolMaxSize(c)

\* Opening a connection creates the storage file when it does not exist.
OpenFile(target, fs) ==
    IF target \in DOMAIN fs THEN fs
    ELSE [f \in DOMAIN fs \cup {target} |->
            IF f = target THEN 0 ELSE fs[f]]

Finish(i, r) ==
    /\ pc' = [pc EXCEPT ![i] = IF r = "Ok" THEN "done" ELSE "failed"]
    /\ result' = [result EXCEPT ![i] = r]

\* new(config), lines 188-216: the counters, with the clock as last_cleanup,
\* then the validation.
new_validate(i, c) ==
    /\ pc[i] = "idle"
    /\ cfg' = [cfg EXCEPT ![i] = c]
    /\ analytics' = [analytics EXCEPT ![i] =
           [total_requests |-> 0, cache_hits |-> 0, cache_misses |-> 0,
            hit_rate |-> <<0, 1>>, cache_size_bytes |-> 0, resource_count |-> 0,
            eviction_count |-> 0, last_cleanup |-> clock]]
    /\ IF ConfigInvalid(c)
       THEN Finish(i, "Validation")
       ELSE /\ pc' = [pc EXCEPT ![i] = "build"]
            /\ UNCHANGED result
    /\ UNCHANGED <<dbKey, pool, curVer, migResult, registry, trackerLock, dirs, files,
                   migrationRuns>>
    /\ UNCHANGED <<clock, ticks, tasks, rows, history, op, nextId, opsDone, lastWrite>>

\* new(config), lines 218-246: the pool builder and Pool::build, which waits
\* for min_idle connections to be opened and fails when they cannot be.
new_build_pool(i) ==
    /\ pc[i] = "build"
    /\ LET c == cfg[i]
           target == OpenTarget(c.database_path, dirs, DOMAIN files)
       IN  IF BuilderPanics(c)
           THEN /\ pc' = [pc EXCEPT ![i] = "panicked"]
                /\ result' = [result EXCEPT ![i] = "panic"]
                /\ UNCHANGED <<pool, files>>
           ELSE IF PoolMinIdle(c) = 0
           THEN /\ pool' = [pool EXCEPT ![i] =
                      [built |-> TRUE, max_size |-> PoolMaxSize(c),
                       min_idle |-> 0, conns |-> 0, out |-> 0]]
                /\ pc' = [pc EXCEPT ![i] = "init"]
                /\ UNCHANGED <<result, files>>
           ELSE IF IsSome(target)
           THEN /\ pool' = [pool EXCEPT ![i] =
                      [built |-> TRUE, max_size |-> PoolMaxSize(c),
                       min_idle |-> PoolMinIdle(c), conns |-> PoolMinIdle(c),
                       out |-> 0]]
                /\ files' = OpenFile(Unwrap(target), files)
                /\ pc' = [pc EXCEPT ![i] = "init"]
                /\ UNCHANGED result
           ELSE /\ Finish(i, "Pool")
                /\ UNCHANGED <<pool, files>>
    /\ UNCHANGED <<cfg, dbKey, curVer, migResult, registry, trackerLock, dirs, migrationRuns>>
    /\ UNCHANGED storeVars

----------------------------------------------------------------------------
(* init_schema *)

\* Messages of a failed Migrations::to_latest, as words.  ExistsMsgs are the
\* engine's reports that an object of the schema is already there; OtherMsgs
\* are its other failures.
ExistsMsgs == { <<"table", "resources", "already", "exists">>,
                <<"Duplicate", "column", "name">> }

OtherMsgs == { <<"database", "is", "locked">>,
               <<"there", "is", "already", "a", "table">> }

EngineMessages == ExistsMsgs \cup OtherMsgs

MigrationOutcomes ==
    {[ok |-> TRUE, msg |-> <<>>]} \cup {[ok |-> FALSE, msg |-> m] : m \in EngineMessages}

LowerWord(w) ==
    CASE w = "Duplicate" -> "duplicate"
      [] OTHER -> w

to_lowercase(msg) == [k \in 1..Len(msg) |-> LowerWord(msg[k])]

Contains(msg, pat) ==
    \E k \in 1..(Len(msg) - Len(pat) + 1) : SubSeq(msg, k, k + Len(pat) - 1) = pat

\* A classification that takes every failure for a concurrent initialization.
IsConcurrentInit_any(msg) == TRUE

\* A classification that forgets to lowercase and the second phrase.
IsConcurrentInit_exists_only(msg) == Contains(msg, <<"already", "exists">>)

\* lines 338-341: is the failure a concurrent initialization?
IsConcurrentInit(msg) ==
    LET error_msg == to_lowercase(msg) IN
    \/ Contains(error_msg, <<"already", "exists">>)
    \/ Contains(error_msg, <<"duplicate">>)

\* get_db_tracker().lock() (lines 280, 296, 331 and 344) for a block that
\* ends within the step: the caller has the Mutex, or takes it when it is
\* free, and the guard is dropped at the end of the block.
MutexLock(i) ==
    /\ trackerLock \in {0, i}
    /\ trackerLock' = 0

\* The file the instance's connections are on.
DbFile(i) == Unwrap(OpenTarget(cfg[i].database_path, dirs, DOMAIN files))

\* get_db_tracker().lock() when the caller has to wait for the Mutex or is
\* not scheduled at once after taking it: the first check (line 280), the
\* second check (line 296) and the insert after the migrations (lines 331
\* and 344).
tracker_lock(i) ==
    /\ trackerLock = 0
    /\ \/ pc[i] \in {"init", "recheck"}
       \/ /\ pc[i] = "classify"
          /\ migResult[i].ok \/ IsConcurrentInit(migResult[i].msg)
    /\ trackerLock' = i
    /\ UNCHANGED <<pc, cfg, dbKey, result, pool, curVer, migResult, registry,
                   dirs, files, migrationRuns>>
    /\ UNCHANGED storeVars

\* A first check whose guard lives on after the block when the key is not
\* in the registry.
init_schema_fast_holds(i) ==
    /\ pc[i] = "init"
    /\ trackerLock \in {0, i}
    /\ LET db_path == normalize_db_path(cfg[i].database_path, dirs, DOMAIN files) IN
       /\ dbKey' = [dbKey EXCEPT ![i] = db_path]
       /\ IF db_path \in registry
          THEN Finish(i, "Ok") /\ trackerLock' = 0
          ELSE /\ pc' = [pc EXCEPT ![i] = "acquire"]
               /\ trackerLock' = i
               /\ UNCHANGED result
    /\ UNCHANGED <<cfg, pool, curVer, migResult, registry, dirs, files,
                   migrationRuns>>
    /\ UNCHANGED storeVars

\* lines 276-285: normalize the path, first check of the registry.
init_schema_fast(i) ==
    /\ pc[i] = "init"
    /\ MutexLock(i)
    /\ LET db_path == normalize_db_path(cfg[i].database_path, dirs, DOMAIN files) IN
       /\ dbKey' = [dbKey EXCEPT ![i] = db_path]
       /\ IF db_path \in registry
          THEN Finish(i, "Ok")
          ELSE /\ pc' = [pc EXCEPT ![i] = "acquire"]
               /\ UNCHANGED result
    /\ UNCHANGED <<cfg, pool, curVer, migResult, registry, dirs, files,
                   migrationRuns>>
    /\ UNCHANGED storeVars

\* with_connection, lines 262-265, as init_schema uses it: pool.get() hands
\* out an idle connection or opens one.  The connection is held until the
\* closure of init_schema returns.
init_schema_acquire(i) ==
    /\ pc[i] = "acquire"
    /\ LET target == OpenTarget(cfg[i].database_path, dirs, DOMAIN files) IN
       IF pool[i].out < pool[i].conns
       THEN /\ pool' = [pool EXCEPT ![i] = PoolGet(@)]
            /\ pc' = [pc EXCEPT ![i] = "recheck"]
            /\ UNCHANGED <<result, files>>
       ELSE IF CanCheckout(pool[i]) /\ IsSome(target)
       THEN /\ pool' = [pool EXCEPT ![i] = PoolGet(@)]
            /\ files' = OpenFile(Unwrap(target), files)
            /\ pc' = [pc EXCEPT ![i] = "recheck"]
            /\ UNCHANGED result
       ELSE /\ Finish(i, "Pool")
            /\ UNCHANGED <<pool, files>>
    /\ UNCHANGED <<cfg, dbKey, curVer, migResult, registry, trackerLock, dirs, migrationRuns>>
    /\ UNCHANGED storeVars

\* lines 294-304: second check of the registry.
init_schema_recheck(i) ==
    /\ pc[i] = "recheck"
    /\ MutexLock(i)
    /\ IF dbKey[i] \in registry
       THEN /\ Finish(i, "Ok")
            /\ pool' = [pool EXCEPT ![i] = PoolPut(@)]
       ELSE /\ pc' = [pc EXCEPT ![i] = "mkdir"]
            /\ UNCHANGED <<result, pool>>
    /\ UNCHANGED <<cfg, dbKey, curVer, migResult, registry, dirs, files,
                   migrationRuns>>
    /\ UNCHANGED storeVars

\* lines 306-314: create the parent directory of the normalized path.
init_schema_mkdir(i) ==
    /\ pc[i] = "mkdir"
    /\ LET parent == KeyParent(dbKey[i]) IN
       IF IsSome(parent) /\ Prefixes(Unwrap(parent)) \cap DOMAIN files # {}
       THEN /\ Finish(i, "Storage")
            /\ pool' = [pool EXCEPT ![i] = PoolPut(@)]
            /\ UNCHANGED dirs
       ELSE /\ dirs' = IF IsSome(parent)
                       THEN create_dir_all(Unwrap(parent), dirs) ELSE dirs
            /\ pc' = [pc EXCEPT ![i] = "pragmas"]
            /\ UNCHANGED <<result, pool>>
    /\ UNCHANGED <<cfg, dbKey, curVer, migResult, registry, trackerLock, files,
                   migrationRuns>>
    /\ UNCHANGED storeVars

\* lines 316-327: the pragmas, the busy timeout and the start of to_latest,
\* which reads the file's user_version.  Any of the pragmas can fail.
init_schema_pragmas(i, ok) ==
    /\ pc[i] = "pragmas"
    /\ migrationRuns' = [migrationRuns EXCEPT ![dbKey[i]] = @ + 1]
    /\ IF ok
       THEN /\ curVer' = [curVer EXCEPT ![i] = files[DbFile(i)]]
            /\ pc' = [pc EXCEPT ![i] = "migrate"]
            /\ UNCHANGED <<result, pool>>
       ELSE /\ Finish(i, "Storage")
            /\ pool' = [pool EXCEPT ![i] = PoolPut(@)]
            /\ UNCHANGED curVer
    /\ UNCHANGED <<cfg, dbKey, migResult, registry, trackerLock, dirs, files>>
    /\ UNCHANGED storeVars

\* An initialization that creates the tables anew whenever it runs.
init_schema_migrate_recreate(i, o) ==
    /\ pc[i] = "migrate"
    /\ IF curVer[i] = LatestVersion
       THEN /\ o.ok
            /\ UNCHANGED files
       ELSE IF o.ok
       THEN files' = [files EXCEPT ![DbFile(i)] = LatestVersion]
       ELSE /\ o.msg \in ExistsMsgs => files[DbFile(i)] = LatestVersion
            /\ UNCHANGED files
    /\ migResult' = [migResult EXCEPT ![i] = o]
    /\ pc' = [pc EXCEPT ![i] = "classify"]
    /\ rows' = IF o.ok THEN {} ELSE rows
    /\ UNCHANGED <<cfg, dbKey, result, pool, curVer, registry, trackerLock, dirs,
                   migrationRuns>>
    /\ UNCHANGED <<clock, ticks, tasks, history, analytics, op, nextId, opsDone,
                   lastWrite>>

\* line 327: Migrations::to_latest.  It returns Ok at once when the version
\* read is the latest; otherwise it runs the migrations in one transaction,
\* which commits (the file is at the latest version) or fails and rolls
\* back.  The engine reports an object as already existing only when another
\* initializer has committed the schema in the meantime.
init_schema_migrate(i, o) ==
    /\ pc[i] = "migrate"
    /\ IF curVer[i] = LatestVersion
       THEN /\ o.ok
            /\ UNCHANGED files
       ELSE IF o.ok
       THEN files' = [files EXCEPT ![DbFile(i)] = LatestVersion]
       ELSE /\ o.msg \in ExistsMsgs => files[DbFile(i)] = LatestVersion
            /\ UNCHANGED files
    /\ migResult' = [migResult EXCEPT ![i] = o]
    /\ pc' = [pc EXCEPT ![i] = "classify"]
    /\ UNCHANGED <<cfg, dbKey, result, pool, curVer, registry, trackerLock, dirs,
                   migrationRuns>>
    /\ UNCHANGED storeVars

\* lines 327-356: the match on the result of to_latest.
init_schema_classify(i) ==
    /\ pc[i] = "classify"
    /\ IF migResult[i].ok \/ IsConcurrentInit(migResult[i].msg)
       THEN /\ MutexLock(i)
            /\ registry' = registry \cup {dbKey[i]}
            /\ Finish(i, "Ok")
       ELSE /\ Finish(i, "Storage")
            /\ UNCHANGED <<registry, trackerLock>>
    /\ pool' = [pool EXCEPT ![i] = PoolPut(@)]
    /\ UNCHANGED <<cfg, dbKey, curVer, migResult, dirs, files, migrationRuns>>
    /\ UNCHANGED storeVars

----------------------------------------------------------------------------
(* Texts: content types and encodings are sequences of characters *)

UpperChars == <<"A", "B", "C", "D", "E", "F", "G", "H", "I", "J", "K", "L", "M",
                "N", "O", "P", "Q", "R", "S", "T", "U", "V", "W", "X", "Y", "Z">>

LowerChars == <<"a", "b", "c", "d", "e", "f", "g", "h", "i", "j", "k", "l", "m",
                "n", "o", "p", "q", "r", "s", "t", "u", "v", "w", "x", "y", "z">>

AsciiLowerChar(c) ==
    IF \E k \in DOMAIN UpperChars : UpperChars[k] = c
    THEN LowerChars[CHOOSE k \in DOMAIN UpperChars : UpperChars[k] = c]
    ELSE c

to_ascii_lowercase(s) == [k \in 1..Len(s) |-> AsciiLowerChar(s[k])]

eq_ignore_ascii_case(a, b) == to_ascii_lowercase(a) = to_ascii_lowercase(b)

\* str::split(sep): the pieces between the separators, `cur` the piece begun
RECURSIVE SplitOn(_, _, _)
SplitOn(s, sep, cur) ==
    IF s = <<>> THEN <<cur>>
    ELSE IF Head(s) = sep THEN <<cur>> \o SplitOn(Tail(s), sep, <<>>)
    ELSE SplitOn(Tail(s), sep, Append(cur, Head(s)))

split(s, sep) == SplitOn(s, sep, <<>>)

RECURSIVE TrimStart(_, _)
TrimStart(s, cs) ==
    IF s # <<>> /\ Head(s) \in cs THEN TrimStart(Tail(s), cs) ELSE s

RECURSIVE TrimEnd(_, _)
TrimEnd(s, cs) ==
    IF s # <<>> /\ s[Len(s)] \in cs THEN TrimEnd(SubSeq(s, 1, Len(s) - 1), cs) ELSE s

trim_matches(s, cs) == TrimEnd(TrimStart(s, cs), cs)

trim(s) == trim_matches(s, {" "})

\* str::split_once(c): Some(<<before, after>>) at the first c, or None
split_once(s, c) ==
    IF \E k \in DOMAIN s : s[k] = c
    THEN LET k == CHOOSE n \in DOMAIN s : s[n] = c /\ \A m \in 1..(n - 1) : s[m] # c
         IN  Some(<<SubSeq(s, 1, k - 1), SubSeq(s, k + 1, Len(s))>>)
    ELSE None

CharsetKey == <<"c", "h", "a", "r", "s", "e", "t">>

\* The closure of find_map in parse_charset, for one part.
CharsetOfPart(part) ==
    LET kv == split_once(trim(part), "=") IN
    IF ~IsSome(kv) THEN None
    ELSE LET key == Unwrap(kv)[1]
             value == Unwrap(kv)[2]
         IN  IF eq_ignore_ascii_case(trim(key), CharsetKey)
             THEN Some(to_ascii_lowercase(trim_matches(value, {"\"", "'"})))
             ELSE None

RECURSIVE FindMapCharset(_)
FindMapCharset(parts) ==
    IF parts = <<>> THEN None
    ELSE IF IsSome(CharsetOfPart(Head(parts))) THEN CharsetOfPart(Head(parts))
    ELSE FindMapCharset(Tail(parts))

parse_charset(content_type) == FindMapCharset(split(content_type, ";"))

----------------------------------------------------------------------------
(* Metadata and its JSON text *)

\* A serde_json::Value: a string <<"s", text>> or a number <<"n", digits>>.
JsonStr(t) == <<"s", t>>
JsonNum(t) == <<"n", t>>

\* Value::as_str
as_str(v) == IF v[1] = "s" THEN Some(v[2]) ELSE None

\* HashMap::get
MapGet(m, k) == IF k \in DOMAIN m THEN Some(m[k]) ELSE None

\* HashMap::insert
MapInsert(m, k, v) == [x \in DOMAIN m \cup {k} |-> IF x = k THEN v ELSE m[x]]

\* The keys of the metadata maps of the model, in the order they are written.
MetaKeyOrder == <<"description", "encoding", "name", "size">>

RECURSIVE WriteEntries(_, _)
WriteEntries(m, keys) ==
    IF keys = <<>> THEN <<>>
    ELSE IF Head(keys) \in DOMAIN m
         THEN <<<<Head(keys), m[Head(keys)]>>>> \o WriteEntries(m, Tail(keys))
         ELSE WriteEntries(m, Tail(keys))

\* serde_json::to_string(&metadata): the object's entries, one after the other
to_json(m) == WriteEntries(m, MetaKeyOrder)

\* serde_json::from_str: the map of the entries read, a later entry winning
from_json(j) ==
    [k \in {j[n][1] : n \in DOMAIN j} |->
        j[CHOOSE n \in DOMAIN j :
            j[n][1] = k /\ \A m \in DOMAIN j : j[m][1] = k => m <= n][2]]

----------------------------------------------------------------------------
(* Time and rows *)

\* Milliseconds per second: strftime('%s', 'now') * 1000 in the trigger.
MsPerSec == 1000

\* DateTime::timestamp_millis
timestamp_millis(t) == t \div SubPerMs

\* strftime('%s', 'now') * 1000: the engine's clock in whole seconds, as ms
SqlNowMillis(t) == (timestamp_millis(t) \div MsPerSec) * MsPerSec

\* Expiry that treats a zero TTL like any other.
ExpiresAt_always(now, ttl) == Some(now + ttl)

\* store_resource_with_ttl, lines 375-382
ExpiresAt(now, ttl) == IF ttl = 0 THEN None ELSE Some(now + ttl)

\* Folding that leaves the encoding out of the metadata.
FoldEncoding_dropped(res) == res.info.metadata

\* store_resource_with_ttl, lines 384-388
FoldEncoding(res) ==
    IF IsSome(res.encoding)
    THEN MapInsert(res.info.metadata, "encoding", JsonStr(Unwrap(res.encoding)))
    ELSE res.info.metadata

\* store_resource_with_ttl, lines 373-401: the row to write.  `src` is not a
\* column: it records the call the row comes from.
NewRow(id, res, ttl, now) ==
    LET expires_at == ExpiresAt(now, ttl) IN
    [id |-> id,
     uri |-> res.info.uri,
     content |-> res.data,
     content_type |-> res.info.mime_type,
     metadata_json |-> to_json(FoldEncoding(res)),
     created_at |-> timestamp_millis(now),
     accessed_at |-> timestamp_millis(now),
     expires_at |-> IF IsSome(expires_at)
                    THEN Some(timestamp_millis(Unwrap(expires_at))) ELSE None,
     access_count |-> 1,
     size_bytes |-> Len(res.data),
     src |-> [res |-> res, t |-> now, ttl |-> ttl]]

NoInfo == [uri |-> "", name |-> None, description |-> None, mime_type |-> None,
           metadata |-> << >>]

NoResource == [info |-> NoInfo, data |-> <<>>, encoding |-> None]

NoRow == NewRow(0, NoResource, 0, 0)

\* An upsert that, on a conflict, overwrites the content of the row it finds
\* and keeps the rest of it.
insert_or_replace_merge(rs, r) ==
    IF \E x \in rs : x.uri = r.uri
    THEN {IF x.uri = r.uri
          THEN [x EXCEPT !.content = r.content, !.size_bytes = r.size_bytes]
          ELSE x : x \in rs}
    ELSE rs \cup {r}

\* INSERT OR REPLACE (line 408): the rows in conflict on the primary key id
\* or on the unique uri are deleted, then the row is inserted.
insert_or_replace(rs, r) == {x \in rs : x.uri # r.uri /\ x.id # r.id} \cup {r}

\* A trigger that deletes every row that has an expiry.
cleanup_expired_resources_any(rs, t) == {x \in rs : x.expires_at = None}

\* The trigger cleanup_expired_resources (lines 55-61), run after an insert
cleanup_expired_resources(rs, t) ==
    {x \in rs : ~(x.expires_at # None /\ Unwrap(x.expires_at) < SqlNowMillis(t))}

\* A read filter that still shows a row at the millisecond it expires.
Visible_inclusive(r, now) == r.expires_at = None \/ Unwrap(r.expires_at) >= now

\* The read filter of get, contains, list and search:
\* expires_at IS NULL OR expires_at > now
Visible(r, now) == r.expires_at = None \/ Unwrap(r.expires_at) > now

\* A sweep that spares the rows expiring at this very millisecond.
Expired_strict(r, now) == r.expires_at # None /\ Unwrap(r.expires_at) < now

\* The WHERE of cleanup_expired (line 666):
\* expires_at IS NOT NULL AND expires_at <= now
Expired(r, now) == r.expires_at # None /\ Unwrap(r.expires_at) <= now

\* contains_resource, lines 602-607
contains_query(rs, uri, now) == Cardinality({r \in rs : r.uri = uri /\ Visible(r, now)}) > 0

\* A read that prefers the charset of the content type to the stored
\* encoding.
ContentOfRow_charset_first(row) ==
    LET metadata == from_json(row.metadata_json)
        name == MapGet(metadata, "name")
        description == MapGet(metadata, "description")
        enc == MapGet(metadata, "encoding")
        stored == IF IsSome(enc) THEN as_str(Unwrap(enc)) ELSE None
        charset == IF IsSome(row.content_type)
                   THEN parse_charset(Unwrap(row.content_type)) ELSE None
    IN  [info |-> [uri |-> row.uri,
                   name |-> IF IsSome(name) THEN as_str(Unwrap(name)) ELSE None,
                   description |-> IF IsSome(description)
                                   THEN as_str(Unwrap(description)) ELSE None,
                   mime_type |-> row.content_type,
                   metadata |-> metadata],
         data |-> row.content,
         encoding |-> IF IsSome(charset) THEN charset ELSE stored]

\* get_resource, lines 483-527: the value built from the row read
ContentOfRow(row) ==
    LET metadata == from_json(row.metadata_json)
        name == MapGet(metadata, "name")
        description == MapGet(metadata, "description")
        enc == MapGet(metadata, "encoding")
        stored == IF IsSome(enc) THEN as_str(Unwrap(enc)) ELSE None
    IN  [info |-> [uri |-> row.uri,
                   name |-> IF IsSome(name) THEN as_str(Unwrap(name)) ELSE None,
                   description |-> IF IsSome(description)
                                   THEN as_str(Unwrap(description)) ELSE None,
                   mime_type |-> row.content_type,
                   metadata |-> metadata],
         data |-> row.content,
         encoding |-> IF IsSome(stored) THEN stored
                      ELSE IF IsSome(row.content_type)
                           THEN parse_charset(Unwrap(row.content_type))
                           ELSE None]

\* hit_rate as the fraction <<hits, requests>>; 0.0 is <<0, 1>>
HitRate(hits, total) == IF total > 0 THEN <<hits, total>> ELSE <<0, 1>>

\* new(), lines 190-199, and clear(), lines 643-652
ZeroAnalytics(now) ==
    [total_requests |-> 0, cache_hits |-> 0, cache_misses |-> 0,
     hit_rate |-> <<0, 1>>, cache_size_bytes |-> 0, resource_count |-> 0,
     eviction_count |-> 0, last_cleanup |-> now]

saturating_sub(a, b) == IF a >= b THEN a - b ELSE 0

----------------------------------------------------------------------------
(* The operations of a constructed cache *)

\* with_connection, lines 263-265: no pooled connection could be had.
AcquireErrors == {"Pool"}

\* with_connection, lines 267-268: a statement of the closure failed.
StatementErrors == {"Client"}

\* with_connection, line 271: the blocking task did not run to its end.
DispatchErrors == {"Spawn"}

Ok(v) == <<"Ok", v>>
Err(e) == <<"Err", e>>

\* with_connection, line 263: a connection is checked out of the pool.
Checkout(i) ==
    /\ CanCheckout(pool[i])
    /\ pool' = [pool EXCEPT ![i] = PoolGet(@)]
    /\ UNCHANGED <<pc, cfg, dbKey, result, curVer, migResult, registry, trackerLock, dirs,
                   files, migrationRuns>>

\* with_connection, line 269: the closure is over, the connection goes back.
Release(i) ==
    /\ pool' = [pool EXCEPT ![i] = PoolPut(@)]
    /\ UNCHANGED <<pc, cfg, dbKey, result, curVer, migResult, registry, trackerLock, dirs,
                   files, migrationRuns>>

\* with_connection, lines 255-272, around a closure that is one step: with
\* the error e of AcquireErrors no connection was had; otherwise one was
\* checked out, opened if need be, and given back.
WithConnection(i, e) ==
    IF e \in AcquireErrors THEN UNCHANGED initVars
    ELSE /\ CanCheckout(pool[i])
         /\ pool' = [pool EXCEPT ![i] = PoolPut(PoolGet(@))]
         /\ UNCHANGED <<pc, cfg, dbKey, result, curVer, migResult, registry, trackerLock,
                        dirs, files, migrationRuns>>

IdleOp == [kind |-> "none", phase |-> "idle", uri |-> "", now |-> 0,
           row |-> NoRow, found |-> None, n |-> 0, query |-> <<>>,
           ret |-> <<>>]

\* The clock when the instances are constructed: two milliseconds before a
\* full second.
StartClock == (MsPerSec - 2) * SubPerMs

StoreStart ==
    /\ clock = StartClock
    /\ ticks = 0
    /\ rows = {}
    /\ history = <<>>
    /\ analytics = [i \in Inst |-> ZeroAnalytics(StartClock)]
    /\ op = [i \in Inst |-> IdleOp]
    /\ nextId = 1
    /\ opsDone = 0
    /\ lastWrite = << >>
    /\ tasks = {}

\* A public method can be called on a constructed cache that runs no other.
CanBegin(i) ==
    /\ pc[i] = "done"
    /\ op[i].phase \in {"idle", "done"}
    /\ opsDone < MaxOps

Begin(i, kind, phase, uri, now, row) ==
    /\ op' = [op EXCEPT ![i] = [IdleOp EXCEPT !.kind = kind, !.phase = phase,
                                              !.uri = uri, !.now = now,
                                              !.row = row]]
    /\ opsDone' = opsDone + 1

Return(i, ret) ==
    op' = [op EXCEPT ![i] = [IdleOp EXCEPT !.kind = op[i].kind, !.phase = "done",
                                           !.uri = op[i].uri, !.ret = ret]]

\* Time passes.
tick(d) ==
    /\ ticks < MaxTicks
    /\ clock' = clock + d
    /\ ticks' = ticks + 1
    /\ UNCHANGED <<rows, history, analytics, op, nextId, opsDone, lastWrite,
                   tasks>>
    /\ UNCHANGED initVars

\* The largest std Duration chrono::Duration::from_std accepts (line 379),
\* and the largest DateTime, scaled to the clocks of the model: a TTL above
\* TtlLimit is refused, and one below it can still carry the sum of line 379
\* past DateTimeMax, where the operator + of DateTime panics.
DateTimeMax == StartClock + (MaxTicks + 2) * SubPerMs

TtlLimit == (MaxTicks + 4) * SubPerMs

TtlInvalid(ttl) == ttl > TtlLimit

TtlOverflows(now, ttl) == ttl > 0 /\ ~TtlInvalid(ttl) /\ now + ttl > DateTimeMax

\* store_resource_with_ttl, lines 373-401: the id, the clock, the expiry
\* (which can be refused, or panic) and the row.
store_resource_with_ttl_begin(i, res, ttl) ==
    /\ CanBegin(i)
    /\ IF TtlInvalid(ttl)
       THEN /\ opsDone' = opsDone + 1
            /\ op' = [op EXCEPT ![i] = [IdleOp EXCEPT !.kind = "store",
                         !.phase = "done", !.uri = res.info.uri,
                         !.ret = Err("Validation")]]
       ELSE IF TtlOverflows(clock, ttl)
       THEN /\ opsDone' = opsDone + 1
            /\ op' = [op EXCEPT ![i] = [IdleOp EXCEPT !.kind = "store",
                         !.phase = "done", !.uri = res.info.uri,
                         !.ret = <<"Panic", "overflow">>]]
       ELSE Begin(i, "store", "exec", res.info.uri, clock,
                  NewRow(nextId, res, ttl, clock))
    /\ nextId' = nextId + 1
    /\ UNCHANGED <<clock, ticks, tasks, rows, history, analytics, lastWrite>>
    /\ UNCHANGED initVars

\* A store that counts the resource before it knows the transaction's fate.
store_resource_with_ttl_exec_counts_first(i, e) ==
    /\ op[i].kind = "store" /\ op[i].phase = "exec"
    /\ analytics' = [analytics EXCEPT
           ![i].resource_count = @ + 1,
           ![i].cache_size_bytes = @ + op[i].row.size_bytes]
    /\ IF e = ""
       THEN /\ rows' = cleanup_expired_resources(
                           insert_or_replace(rows, op[i].row), clock)
            /\ lastWrite' = MapInsert(lastWrite, op[i].uri, op[i].row.src @@ [id |-> op[i].row.id])
            /\ Return(i, Ok(op[i].row.id))
       ELSE /\ Return(i, Err(e))
            /\ UNCHANGED <<rows, lastWrite>>
    /\ UNCHANGED <<clock, ticks, tasks, history, nextId, opsDone>>
    /\ WithConnection(i, e)

\* A store that counts a resource only when its URI had no row.
store_resource_with_ttl_exec_counts_new(i, e) ==
    /\ op[i].kind = "store" /\ op[i].phase = "exec"
    /\ IF e = ""
       THEN /\ rows' = cleanup_expired_resources(
                           insert_or_replace(rows, op[i].row), clock)
            /\ analytics' = [analytics EXCEPT
                   ![i].resource_count =
                       IF \E r \in rows : r.uri = op[i].uri THEN @ ELSE @ + 1,
                   ![i].cache_size_bytes = @ + op[i].row.size_bytes]
            /\ lastWrite' = MapInsert(lastWrite, op[i].uri, op[i].row.src @@ [id |-> op[i].row.id])
            /\ Return(i, Ok(op[i].row.id))
       ELSE /\ Return(i, Err(e))
            /\ UNCHANGED <<rows, analytics, lastWrite>>
    /\ UNCHANGED <<clock, ticks, tasks, history, nextId, opsDone>>
    /\ WithConnection(i, e)

\* store_resource_with_ttl, lines 403-435: the transaction with the upsert
\* (and the trigger it fires), then the counters.
store_resource_with_ttl_exec(i, e) ==
    /\ op[i].kind = "store" /\ op[i].phase = "exec"
    /\ IF e = ""
       THEN /\ rows' = cleanup_expired_resources(
                           insert_or_replace(rows, op[i].row), clock)
            /\ analytics' = [analytics EXCEPT
                   ![i].resource_count = @ + 1,
                   ![i].cache_size_bytes = @ + op[i].row.size_bytes]
            /\ lastWrite' = MapInsert(lastWrite, op[i].uri, op[i].row.src @@ [id |-> op[i].row.id])
            /\ Return(i, Ok(op[i].row.id))
       ELSE /\ Return(i, Err(e))
            /\ UNCHANGED <<rows, analytics, lastWrite>>
    /\ UNCHANGED <<clock, ticks, tasks, history, nextId, opsDone>>
    /\ WithConnection(i, e)

\* get_resource, lines 440-441
get_resource_begin(i, uri) ==
    /\ CanBegin(i)
    /\ Begin(i, "get", "select", uri, timestamp_millis(clock), NoRow)
    /\ UNCHANGED <<clock, ticks, tasks, rows, history, analytics, nextId, lastWrite>>
    /\ UNCHANGED initVars

\* A miss that leaves the hit rate as the last hit set it.
CountMiss_stale_rate(a) ==
    [a EXCEPT !.total_requests = @ + 1, !.cache_misses = @ + 1]

\* get_resource, lines 529-540: the counters of a miss
CountMiss(a) ==
    [a EXCEPT !.total_requests = @ + 1, !.cache_misses = @ + 1,
              !.hit_rate = HitRate(a.cache_hits, a.total_requests + 1)]

\* get_resource, lines 514-521: the counters of a hit
CountHit(a) ==
    [a EXCEPT !.total_requests = @ + 1, !.cache_hits = @ + 1,
              !.hit_rate = HitRate(a.cache_hits + 1, a.total_requests + 1)]

\* get_resource, lines 446-471: the SELECT under the expiry filter
get_resource_select(i, e) ==
    /\ op[i].kind = "get" /\ op[i].phase = "select"
    /\ LET hits == {r \in rows : r.uri = op[i].uri /\ Visible(r, op[i].now)} IN
       IF e # ""
       THEN /\ Return(i, Err(e))
            /\ UNCHANGED analytics
       ELSE IF hits = {}
       THEN /\ Return(i, Ok(None))
            /\ analytics' = [analytics EXCEPT ![i] = CountMiss(@)]
       ELSE /\ \E r \in hits :
                 op' = [op EXCEPT ![i].phase = "update", ![i].found = Some(r)]
            /\ UNCHANGED analytics
    /\ UNCHANGED <<clock, ticks, tasks, rows, history, nextId, opsDone, lastWrite>>
    /\ IF e = "" /\ op'[i].phase = "update" THEN Checkout(i)
       ELSE WithConnection(i, e)

\* get_resource, lines 473-527: the UPDATE of the access columns, a statement
\* of its own, then the value returned
get_resource_update(i, e) ==
    /\ op[i].kind = "get" /\ op[i].phase = "update"
    /\ IF e = ""
       THEN /\ rows' = {IF r.uri = op[i].uri
                        THEN [r EXCEPT !.accessed_at = op[i].now,
                                       !.access_count = @ + 1]
                        ELSE r : r \in rows}
            /\ analytics' = [analytics EXCEPT ![i] = CountHit(@)]
            /\ Return(i, Ok(Some(ContentOfRow(Unwrap(op[i].found)))))
       ELSE /\ Return(i, Err(e))
            /\ UNCHANGED <<rows, analytics>>
    /\ UNCHANGED <<clock, ticks, tasks, history, nextId, opsDone, lastWrite>>
    /\ Release(i)

\* An existence check that counts as an access of the row it finds.
contains_resource_touches(i, uri, e) ==
    /\ CanBegin(i)
    /\ opsDone' = opsDone + 1
    /\ op' = [op EXCEPT ![i] =
                [IdleOp EXCEPT !.kind = "contains", !.phase = "done", !.uri = uri,
                    !.ret = IF e = ""
                            THEN Ok(contains_query(rows, uri, timestamp_millis(clock)))
                            ELSE Err(e)]]
    /\ rows' = IF e = ""
               THEN {IF r.uri = uri /\ Visible(r, timestamp_millis(clock))
                     THEN [r EXCEPT !.accessed_at = timestamp_millis(clock),
                                    !.access_count = @ + 1]
                     ELSE r : r \in rows}
               ELSE rows
    /\ UNCHANGED <<clock, ticks, tasks, history, analytics, nextId, lastWrite>>
    /\ WithConnection(i, e)

\* contains_resource, lines 597-609
contains_resource(i, uri, e) ==
    /\ CanBegin(i)
    /\ opsDone' = opsDone + 1
    /\ op' = [op EXCEPT ![i] =
                [IdleOp EXCEPT !.kind = "contains", !.phase = "done", !.uri = uri,
                    !.ret = IF e = ""
                            THEN Ok(contains_query(rows, uri, timestamp_millis(clock)))
                            ELSE Err(e)]]
    /\ UNCHANGED <<clock, ticks, tasks, rows, history, analytics, nextId, lastWrite>>
    /\ WithConnection(i, e)

\* A remove under the filter of the reads: it spares a row that has expired.
remove_resource_unexpired(i, uri, e) ==
    /\ CanBegin(i)
    /\ opsDone' = opsDone + 1
    /\ LET hit == {r \in rows : r.uri = uri /\ Visible(r, timestamp_millis(clock))} IN
       IF e = ""
       THEN /\ rows' = rows \ hit
            /\ analytics' = [analytics EXCEPT ![i].resource_count =
                               IF hit # {} THEN saturating_sub(@, 1) ELSE @]
            /\ lastWrite' = [u \in DOMAIN lastWrite \ {uri} |-> lastWrite[u]]
            /\ op' = [op EXCEPT ![i] = [IdleOp EXCEPT !.kind = "remove",
                         !.phase = "done", !.uri = uri, !.ret = Ok(hit # {})]]
       ELSE /\ op' = [op EXCEPT ![i] = [IdleOp EXCEPT !.kind = "remove",
                         !.phase = "done", !.uri = uri, !.ret = Err(e)]]
            /\ UNCHANGED <<rows, analytics, lastWrite>>
    /\ UNCHANGED <<clock, ticks, tasks, history, nextId>>
    /\ WithConnection(i, e)

\* remove_resource, lines 612-631
remove_resource(i, uri, e) ==
    /\ CanBegin(i)
    /\ opsDone' = opsDone + 1
    /\ LET hit == {r \in rows : r.uri = uri} IN
       IF e = ""
       THEN /\ rows' = rows \ hit
            /\ analytics' = [analytics EXCEPT ![i].resource_count =
                               IF hit # {} THEN saturating_sub(@, 1) ELSE @]
            /\ lastWrite' = [u \in DOMAIN lastWrite \ {uri} |-> lastWrite[u]]
            /\ op' = [op EXCEPT ![i] = [IdleOp EXCEPT !.kind = "remove",
                         !.phase = "done", !.uri = uri, !.ret = Ok(hit # {})]]
       ELSE /\ op' = [op EXCEPT ![i] = [IdleOp EXCEPT !.kind = "remove",
                         !.phase = "done", !.uri = uri, !.ret = Err(e)]]
            /\ UNCHANGED <<rows, analytics, lastWrite>>
    /\ UNCHANGED <<clock, ticks, tasks, history, nextId>>
    /\ WithConnection(i, e)

\* clear, lines 635-636: the first DELETE, committed on its own
clear_resources(i, e) ==
    /\ CanBegin(i)
    /\ opsDone' = opsDone + 1
    /\ IF e = ""
       THEN /\ rows' = {}
            /\ lastWrite' = << >>
            /\ op' = [op EXCEPT ![i] = [IdleOp EXCEPT !.kind = "clear",
                                                      !.phase = "history"]]
       ELSE /\ op' = [op EXCEPT ![i] = [IdleOp EXCEPT !.kind = "clear",
                                          !.phase = "done", !.ret = Err(e)]]
            /\ UNCHANGED <<rows, lastWrite>>
    /\ UNCHANGED <<clock, ticks, tasks, history, analytics, nextId>>
    /\ IF e = "" THEN Checkout(i) ELSE WithConnection(i, e)

\* A clear that resets the counters of the reads and leaves the others.
clear_history_keeps_counts(i, e) ==
    /\ op[i].kind = "clear" /\ op[i].phase = "history"
    /\ IF e = ""
       THEN /\ history' = <<>>
            /\ analytics' = [analytics EXCEPT ![i] =
                   [ZeroAnalytics(clock) EXCEPT
                       !.cache_size_bytes = analytics[i].cache_size_bytes,
                       !.resource_count = analytics[i].resource_count]]
            /\ Return(i, Ok(<<>>))
       ELSE /\ Return(i, Err(e))
            /\ UNCHANGED <<history, analytics>>
    /\ UNCHANGED <<clock, ticks, tasks, rows, nextId, opsDone, lastWrite>>
    /\ Release(i)

\* clear, lines 637-654: the second DELETE, then the counters are reset
clear_history(i, e) ==
    /\ op[i].kind = "clear" /\ op[i].phase = "history"
    /\ IF e = ""
       THEN /\ history' = <<>>
            /\ analytics' = [analytics EXCEPT ![i] = ZeroAnalytics(clock)]
            /\ Return(i, Ok(<<>>))
       ELSE /\ Return(i, Err(e))
            /\ UNCHANGED <<history, analytics>>
    /\ UNCHANGED <<clock, ticks, tasks, rows, nextId, opsDone, lastWrite>>
    /\ Release(i)

\* cleanup_expired, line 661
cleanup_expired_begin(i) ==
    /\ CanBegin(i)
    /\ Begin(i, "cleanup", "delete", "", timestamp_millis(clock), NoRow)
    /\ UNCHANGED <<clock, ticks, tasks, rows, history, analytics, nextId, lastWrite>>
    /\ UNCHANGED initVars

\* cleanup_expired, lines 663-676: the DELETE and the counters
cleanup_expired_delete(i, e) ==
    /\ op[i].kind = "cleanup" /\ op[i].phase = "delete"
    /\ LET gone == {r \in rows : Expired(r, op[i].now)}
           removed_count == Cardinality(gone)
       IN  IF e = ""
           THEN /\ rows' = rows \ gone
                /\ analytics' = [analytics EXCEPT
                       ![i].eviction_count = @ + removed_count,
                       ![i].last_cleanup = clock,
                       ![i].resource_count = saturating_sub(@, removed_count)]
                /\ op' = [op EXCEPT ![i].phase = "analytics_read",
                                    ![i].n = removed_count]
           ELSE /\ Return(i, Err(e))
                /\ UNCHANGED <<rows, analytics>>
    /\ UNCHANGED <<clock, ticks, tasks, history, nextId, opsDone, lastWrite>>
    /\ WithConnection(i, e)

RECURSIVE SumSizeBytes(_)
SumSizeBytes(rs) ==
    IF rs = {} THEN 0
    ELSE LET r == CHOOSE x \in rs : TRUE
         IN  r.size_bytes + SumSizeBytes(rs \ {r})

\* update_analytics, lines 691-710: the two queries, each read as 0 when it
\* fails, and the counters set from them
update_analytics_read(i, e, sizeFails, countFails) ==
    /\ op[i].kind = "cleanup" /\ op[i].phase = "analytics_read"
    /\ IF e = ""
       THEN /\ analytics' = [analytics EXCEPT
                   ![i].cache_size_bytes =
                       IF sizeFails THEN 0 ELSE SumSizeBytes(rows),
                   ![i].resource_count =
                       IF countFails THEN 0 ELSE Cardinality(rows)]
            /\ op' = [op EXCEPT ![i].phase = "analytics_insert"]
       ELSE /\ Return(i, Err(e))
            /\ UNCHANGED analytics
    /\ UNCHANGED <<clock, ticks, tasks, rows, history, nextId, opsDone, lastWrite>>
    /\ WithConnection(i, e)

\* update_analytics, lines 712-734, and cleanup_expired, line 681: the
\* snapshot row (its size kept in bytes here), then the count is returned
update_analytics_insert(i, e) ==
    /\ op[i].kind = "cleanup" /\ op[i].phase = "analytics_insert"
    /\ IF e = ""
       THEN /\ history' = Append(history,
                   [timestamp |-> timestamp_millis(clock),
                    hit_rate |-> analytics[i].hit_rate,
                    total_requests |-> analytics[i].total_requests,
                    cache_size |-> analytics[i].cache_size_bytes,
                    eviction_count |-> analytics[i].eviction_count])
            /\ Return(i, Ok(op[i].n))
       ELSE /\ Return(i, Err(e))
            /\ UNCHANGED history
    /\ UNCHANGED <<clock, ticks, tasks, rows, analytics, nextId, opsDone, lastWrite>>
    /\ WithConnection(i, e)

----------------------------------------------------------------------------
(* The reads over all rows *)

\* list_cached_resources, lines 557-584: the CachedResource of a row
CachedResourceOf(row) ==
    [id |-> row.id, uri |-> row.uri, content |-> row.content,
     content_type |-> row.content_type,
     metadata |-> from_json(row.metadata_json),
     created_at |-> row.created_at, accessed_at |-> row.accessed_at,
     expires_at |-> row.expires_at, access_count |-> row.access_count,
     size_bytes |-> row.size_bytes]

\* The rows in the order of their accessed_at, the oldest first.
RECURSIVE OrderByAccessedAsc(_)
OrderByAccessedAsc(rs) ==
    IF rs = {} THEN { <<>> }
    ELSE UNION { { <<CachedResourceOf(r)>> \o s : s \in OrderByAccessedAsc(rs \ {r}) } :
                 r \in {x \in rs : \A y \in rs : x.accessed_at <= y.accessed_at} }

\* ORDER BY accessed_at DESC (lines 554 and 749): the orders the engine can
\* return the rows rs in, rows of one accessed_at in any order.
RECURSIVE OrderByAccessedDesc(_)
OrderByAccessedDesc(rs) ==
    IF rs = {} THEN { <<>> }
    ELSE UNION { { <<CachedResourceOf(r)>> \o s : s \in OrderByAccessedDesc(rs \ {r}) } :
                 r \in {x \in rs : \A y \in rs : x.accessed_at >= y.accessed_at} }

\* list_cached_resources, lines 545-594
list_cached_resources(i, e) ==
    /\ CanBegin(i)
    /\ opsDone' = opsDone + 1
    /\ LET now == timestamp_millis(clock) IN
       \E s \in OrderByAccessedDesc({r \in rows : Visible(r, now)}) :
          op' = [op EXCEPT ![i] =
                   [IdleOp EXCEPT !.kind = "list", !.phase = "done", !.now = now,
                                  !.ret = IF e = "" THEN Ok(s) ELSE Err(e)]]
    /\ UNCHANGED <<clock, ticks, tasks, rows, history, analytics, nextId, lastWrite>>
    /\ WithConnection(i, e)

\* The text of a metadata blob as serde_json writes it: {"key":value,...}.
RECURSIVE JsonText(_)
JsonText(j) ==
    LET KeyText(k) ==
            CASE k = "description" ->
                     <<"d", "e", "s", "c", "r", "i", "p", "t", "i", "o", "n">>
              [] k = "encoding" -> <<"e", "n", "c", "o", "d", "i", "n", "g">>
              [] k = "name" -> <<"n", "a", "m", "e">>
              [] k = "size" -> <<"s", "i", "z", "e">>
        Entry(en) == <<"\"">> \o KeyText(en[1]) \o <<"\"", ":">> \o
                     (IF en[2][1] = "s" THEN <<"\"">> \o en[2][2] \o <<"\"">>
                      ELSE en[2][2])
        RECURSIVE Entries(_)
        Entries(es) == IF es = <<>> THEN <<>>
                       ELSE IF Len(es) = 1 THEN Entry(es[1])
                       ELSE Entry(es[1]) \o <<",">> \o Entries(Tail(es))
    IN  <<"{">> \o Entries(j) \o <<"}">>

\* The operator LIKE of the engine: % stands for any text, _ for any one
\* character, and ASCII letters match without regard to case.
RECURSIVE Like(_, _)
Like(pattern, text) ==
    IF pattern = <<>> THEN text = <<>>
    ELSE IF Head(pattern) = "%"
         THEN Like(Tail(pattern), text) \/ (text # <<>> /\ Like(pattern, Tail(text)))
         ELSE /\ text # <<>>
              /\ \/ Head(pattern) = "_"
                 \/ AsciiLowerChar(Head(pattern)) = AsciiLowerChar(Head(text))
              /\ Like(Tail(pattern), Tail(text))

\* A search that leaves out the filter on expires_at.
search_resources_unfiltered(i, query, e) ==
    /\ CanBegin(i)
    /\ opsDone' = opsDone + 1
    /\ LET now == timestamp_millis(clock)
           search_pattern == <<"%">> \o query \o <<"%">>
           found == {r \in rows :
                       \/ Like(search_pattern, <<r.uri>>)
                       \/ /\ IsSome(r.content_type)
                          /\ Like(search_pattern, Unwrap(r.content_type))
                       \/ Like(search_pattern, JsonText(r.metadata_json))}
       IN  \E s \in OrderByAccessedDesc(found) :
              op' = [op EXCEPT ![i] =
                       [IdleOp EXCEPT !.kind = "search", !.phase = "done",
                                      !.query = query, !.now = now,
                                      !.ret = IF e = "" THEN Ok(s) ELSE Err(e)]]
    /\ UNCHANGED <<clock, ticks, tasks, rows, history, analytics, nextId, lastWrite>>
    /\ WithConnection(i, e)

\* search_resources, lines 738-790; a URI of the model is one character.
search_resources(i, query, e) ==
    /\ CanBegin(i)
    /\ opsDone' = opsDone + 1
    /\ LET now == timestamp_millis(clock)
           search_pattern == <<"%">> \o query \o <<"%">>
           found == {r \in rows :
                       /\ Visible(r, now)
                       /\ \/ Like(search_pattern, <<r.uri>>)
                          \/ /\ IsSome(r.content_type)
                             /\ Like(search_pattern, Unwrap(r.content_type))
                          \/ Like(search_pattern, JsonText(r.metadata_json))}
       IN  \E s \in OrderByAccessedDesc(found) :
              op' = [op EXCEPT ![i] =
                       [IdleOp EXCEPT !.kind = "search", !.phase = "done",
                                      !.query = query, !.now = now,
                                      !.ret = IF e = "" THEN Ok(s) ELSE Err(e)]]
    /\ UNCHANGED <<clock, ticks, tasks, rows, history, analytics, nextId, lastWrite>>
    /\ WithConnection(i, e)

\* A size that counts the rows a read still shows.
get_cache_size_live(i, e) ==
    /\ CanBegin(i)
    /\ opsDone' = opsDone + 1
    /\ op' = [op EXCEPT ![i] =
                [IdleOp EXCEPT !.kind = "size", !.phase = "done",
                    !.ret = IF e = ""
                            THEN Ok(SumSizeBytes({r \in rows :
                                        Visible(r, timestamp_millis(clock))}))
                            ELSE Err(e)]]
    /\ UNCHANGED <<clock, ticks, tasks, rows, history, analytics, nextId, lastWrite>>
    /\ WithConnection(i, e)

\* get_cache_size, lines 793-803
get_cache_size(i, e) ==
    /\ CanBegin(i)
    /\ opsDone' = opsDone + 1
    /\ op' = [op EXCEPT ![i] =
                [IdleOp EXCEPT !.kind = "size", !.phase = "done",
                               !.ret = IF e = "" THEN Ok(SumSizeBytes(rows))
                                       ELSE Err(e)]]
    /\ UNCHANGED <<clock, ticks, tasks, rows, history, analytics, nextId, lastWrite>>
    /\ WithConnection(i, e)

\* compact, lines 805-811: VACUUM rewrites the file and leaves every row as
\* it is.
compact(i, e) ==
    /\ CanBegin(i)
    /\ opsDone' = opsDone + 1
    /\ op' = [op EXCEPT ![i] =
                [IdleOp EXCEPT !.kind = "compact", !.phase = "done",
                               !.ret = IF e = "" THEN Ok(<<>>) ELSE Err(e)]]
    /\ UNCHANGED <<clock, ticks, tasks, rows, history, analytics, nextId, lastWrite>>
    /\ WithConnection(i, e)

----------------------------------------------------------------------------
(* Concurrent construction of instances on one storage file *)

\* The keys an instance of the model can have.
Keys == { <<Root, "w", "db">>, <<Root, "w", "x", "db">> }

InitPaths == { <<"db">>, <<CurDir, "db">> }

InitConfigs ==
    { [database_path |-> p, pool_min_connections |-> Some(m),
       pool_max_connections |-> Some(2), pool_connection_timeout |-> Some(1),
       pool_max_lifetime |-> Some(1)] : p \in InitPaths, m \in {0, 1} }

InitConstruct ==
    /\ pc = [i \in Inst |-> "idle"]
    /\ cfg = [i \in Inst |-> NoConfig]
    /\ dbKey = [i \in Inst |-> <<>>]
    /\ result = [i \in Inst |-> "none"]
    /\ pool = [i \in Inst |-> NoPool]
    /\ curVer = [i \in Inst |-> 0]
    /\ migResult = [i \in Inst |-> NoOutcome]
    /\ registry = {}
    /\ trackerLock = 0
    /\ dirs = { <<Root>>, Cwd }
    /\ files = << >>
    /\ migrationRuns = [k \in Keys |-> 0]
    /\ StoreStart

InitSchemaStep(i) ==
    \/ init_schema_fast(i)
    \/ init_schema_acquire(i)
    \/ init_schema_recheck(i)
    \/ init_schema_mkdir(i)
    \/ \E ok \in BOOLEAN : init_schema_pragmas(i, ok)
    \/ \E o \in MigrationOutcomes : init_schema_migrate(i, o)
    \/ init_schema_classify(i)

NextInit ==
    \E i \in Inst :
        \/ \E c \in InitConfigs : new_validate(i, c)
        \/ new_build_pool(i)
        \/ InitSchemaStep(i)

SpecInit == InitConstruct /\ [][NextInit]_vars

\* The same constructions, with the steps at which an initializer has the
\* Mutex and has not yet looked into the registry.
MutexConfigs == {c \in InitConfigs : c.database_path = <<"db">>}

NextMutex ==
    \E i \in Inst :
        \/ \E c \in MutexConfigs : new_validate(i, c)
        \/ new_build_pool(i)
        \/ tracker_lock(i)
        \/ InitSchemaStep(i)

SpecMutex == InitConstruct /\ [][NextMutex]_vars

----------------------------------------------------------------------------
(* Construction with every kind of configuration, one instance *)

ConfigPaths == { <<>>, <<"db">>, <<"x", "db">> }

PoolSizes == { None, Some(0), Some(1), Some(R2d2DefaultMaxSize + 1) }

Durations == { None, Some(0), Some(1) }

ConfigInputs ==
    { [database_path |-> p, pool_min_connections |-> mn,
       pool_max_connections |-> mx, pool_connection_timeout |-> t,
       pool_max_lifetime |-> l] :
      p \in ConfigPaths, mn \in PoolSizes, mx \in PoolSizes,
      t \in Durations, l \in { None, Some(1) } }

NextConfig ==
    \/ \E c \in ConfigInputs : new_validate(1, c)
    \/ new_build_pool(1)
    \/ InitSchemaStep(1)

SpecConfig == InitConstruct /\ [][NextConfig]_vars

----------------------------------------------------------------------------
(* Construction with the spellings of one path *)

\* "./db", "db" and cwd + "/db"
Spellings == { <<CurDir, "db">>, <<"db">>, Cwd \o <<"db">> }

SpellingConfigs ==
    { [database_path |-> p, pool_min_connections |-> Some(0),
       pool_max_connections |-> Some(2), pool_connection_timeout |-> Some(1),
       pool_max_lifetime |-> Some(1)] : p \in Spellings }

NextSpellings ==
    \E i \in Inst :
        \/ \E c \in SpellingConfigs : new_validate(i, c)
        \/ new_build_pool(i)
        \/ InitSchemaStep(i)

SpecSpellings == InitConstruct /\ [][NextSpellings]_vars

----------------------------------------------------------------------------
(* Construction with every spelling of a path, one instance *)

Segments == {CurDir, ParentDir, "x"}

RECURSIVE SegSeqs(_)
SegSeqs(n) ==
    IF n = 0 THEN { <<>> }
    ELSE SegSeqs(n - 1) \cup
         { q \o <<g>> : q \in SegSeqs(n - 1), g \in Segments }

\* Relative, from the root and from the working directory, up to MaxSegs
\* segments, then the file name.
PathSpellings ==
    { pre \o q \o <<"db">> : pre \in { <<>>, <<Root>>, Cwd }, q \in SegSeqs(MaxSegs) }

PathConfigs ==
    { [database_path |-> p, pool_min_connections |-> Some(m),
       pool_max_connections |-> Some(2), pool_connection_timeout |-> Some(1),
       pool_max_lifetime |-> Some(1)] : p \in PathSpellings, m \in {0, 1} }

NextPaths ==
    \/ \E c \in PathConfigs : new_validate(1, c)
    \/ new_build_pool(1)
    \/ InitSchemaStep(1)

SpecPaths == InitConstruct /\ [][NextPaths]_vars

----------------------------------------------------------------------------
(* Constructed caches on one storage file *)

StoreConfig == [database_path |-> <<"db">>, pool_min_connections |-> Some(0),
                pool_max_connections |-> Some(2),
                pool_connection_timeout |-> Some(1),
                pool_max_lifetime |-> Some(1)]

StoreKey == <<Root, "w", "db">>

\* The state SpecInit reaches when every instance was constructed with
\* StoreConfig: instance 1 ran the migration, the others found the key in
\* the registry.
Constructed ==
    /\ pc = [i \in Inst |-> "done"]
    /\ cfg = [i \in Inst |-> StoreConfig]
    /\ dbKey = [i \in Inst |-> StoreKey]
    /\ result = [i \in Inst |-> "Ok"]
    /\ pool = [i \in Inst |-> [built |-> TRUE, max_size |-> 2, min_idle |-> 0,
                               conns |-> IF i = 1 THEN 1 ELSE 0, out |-> 0]]
    /\ curVer = [i \in Inst |-> 0]
    /\ migResult = [i \in Inst |-> NoOutcome]
    /\ registry = {StoreKey}
    /\ trackerLock = 0
    /\ dirs = { <<Root>>, Cwd }
    /\ files = [f \in {StoreKey} |-> LatestVersion]
    /\ migrationRuns = [k \in Keys |-> IF k = StoreKey THEN 1 ELSE 0]

InitStore == Constructed /\ StoreStart

\* The instances that use the store.
StoreInst == {1}

\* The URIs stored to, and the one read and removed.
Uris == {"a", "b"}

ReadUris == {"a"}

Resource(uri, data) ==
    [info |-> [NoInfo EXCEPT !.uri = uri], data |-> data, encoding |-> None]

\* The payload of the n-th store: every store brings other bytes, and more.
PayloadOf(n) == [k \in 1..n |-> k]

\* Never expiring, and one millisecond.
Ttls == {0, SubPerMs}

TickSteps == {1, SubPerMs}

AnyError == {""} \cup AcquireErrors

LateError == {""} \cup StatementErrors

ReadSteps(i) ==
    \/ \E u \in ReadUris : get_resource_begin(i, u)
    \/ \E e \in AnyError : get_resource_select(i, e)
    \/ \E e \in LateError : get_resource_update(i, e)

SweepSteps(i) ==
    \/ cleanup_expired_begin(i)
    \/ \E e \in AnyError : cleanup_expired_delete(i, e)
    \/ \E e \in AnyError : update_analytics_read(i, e, FALSE, FALSE)
    \/ \E e \in AnyError : update_analytics_insert(i, e)

NextStore ==
    \/ \E d \in TickSteps : tick(d)
    \/ \E i \in StoreInst :
        \/ \E u \in Uris, ttl \in Ttls :
              store_resource_with_ttl_begin(i, Resource(u, PayloadOf(nextId)), ttl)
        \/ \E e \in AnyError : store_resource_with_ttl_exec(i, e)
        \/ ReadSteps(i)
        \/ \E u \in ReadUris, e \in AnyError : remove_resource(i, u, e)
        \/ \E e \in AnyError : clear_resources(i, e)
        \/ \E e \in LateError : clear_history(i, e)
        \/ SweepSteps(i)

SpecStore == InitStore /\ [][NextStore]_vars

----------------------------------------------------------------------------
(* One store of any kind of resource, then reads *)

Mime == <<"t">>

\* t;charset=k
CharsetType == Mime \o <<";", "c", "h", "a", "r", "s", "e", "t", "=", "k">>

\* t; Charset="U"
QuotedCharsetType ==
    Mime \o <<";", " ", "C", "h", "a", "r", "s", "e", "t", "=", "\"", "U", "\"">>

\* t;b=x;charset='K';charset=z
ParamsType ==
    Mime \o <<";", "b", "=", "x", ";", "c", "h", "a", "r", "s", "e", "t", "=",
              "'", "K", "'", ";", "c", "h", "a", "r", "s", "e", "t", "=", "z">>

ContentTypes == { None, Some(Mime), Some(CharsetType), Some(QuotedCharsetType),
                  Some(ParamsType) }

Encodings == { None, Some(<<"E">>) }

Metadatas ==
    { << >>,
      [name |-> JsonStr(<<"n">>)],
      [encoding |-> JsonStr(<<"m">>)],
      [encoding |-> JsonNum(<<"7">>)] }

\* The empty payload and a two-byte character.
Payloads == { <<>>, <<195, 169>> }

RoundTripResources ==
    { [info |-> [NoInfo EXCEPT !.uri = "a", !.mime_type = ct, !.metadata = m],
       data |-> d, encoding |-> enc] :
      ct \in ContentTypes, m \in Metadatas, d \in Payloads, enc \in Encodings }

NextRoundTrip ==
    \/ \E d \in TickSteps : tick(d)
    \/ /\ nextId = 1
       /\ \E res \in RoundTripResources, ttl \in Ttls :
              store_resource_with_ttl_begin(1, res, ttl)
    \/ \E e \in AnyError : store_resource_with_ttl_exec(1, e)
    \/ ReadSteps(1)
    \/ \E u \in ReadUris, e \in AnyError : contains_resource(1, u, e)
    \/ \E u \in ReadUris, e \in AnyError : remove_resource(1, u, e)

SpecRoundTrip == InitStore /\ [][NextRoundTrip]_vars

----------------------------------------------------------------------------
(* Two instances on one storage file store and read concurrently *)

SharedInst == {1, 2}

NextShared ==
    \/ tick(SubPerMs)
    \/ \E i \in SharedInst :
        \/ \E u \in Uris, ttl \in Ttls :
              store_resource_with_ttl_begin(i, Resource(u, PayloadOf(nextId)), ttl)
        \/ store_resource_with_ttl_exec(i, "")
        \/ \E u \in ReadUris : get_resource_begin(i, u)
        \/ get_resource_select(i, "")
        \/ get_resource_update(i, "")

SpecShared == InitStore /\ [][NextShared]_vars

----------------------------------------------------------------------------
(* Stores that fail, on one instance *)

\* Never expiring, one millisecond, the largest duration chrono accepts, and
\* one it refuses.
FaultTtls == Ttls \cup {TtlLimit, TtlLimit + 1}

StoreErrors == {""} \cup AcquireErrors \cup StatementErrors \cup DispatchErrors

NextFaults ==
    \/ \E d \in TickSteps : tick(d)
    \/ \E u \in Uris, ttl \in FaultTtls :
          store_resource_with_ttl_begin(1, Resource(u, PayloadOf(nextId)), ttl)
    \/ \E e \in StoreErrors : store_resource_with_ttl_exec(1, e)
    \/ \E u \in Uris : get_resource_begin(1, u)
    \/ get_resource_select(1, "")
    \/ get_resource_update(1, "")

SpecFaults == InitStore /\ [][NextFaults]_vars

----------------------------------------------------------------------------
(* An instance is constructed on a file that another instance stores to *)

\* The instance that stores and the instance that is constructed and reads.
Writer == 1

Reader == 2

\* The writer is constructed.  The reader's process is the writer's, whose
\* registry holds the key, or another one, whose registry is empty.
InitSessions ==
    /\ pc = [i \in Inst |-> IF i = Writer THEN "done" ELSE "idle"]
    /\ cfg = [i \in Inst |-> IF i = Writer THEN StoreConfig ELSE NoConfig]
    /\ dbKey = [i \in Inst |-> IF i = Writer THEN StoreKey ELSE <<>>]
    /\ result = [i \in Inst |-> IF i = Writer THEN "Ok" ELSE "none"]
    /\ pool = [i \in Inst |->
                 IF i = Writer
                 THEN [built |-> TRUE, max_size |-> 2, min_idle |-> 0,
                       conns |-> 1, out |-> 0]
                 ELSE NoPool]
    /\ curVer = [i \in Inst |-> 0]
    /\ migResult = [i \in Inst |-> NoOutcome]
    /\ registry \in { {}, {StoreKey} }
    /\ trackerLock = 0
    /\ dirs = { <<Root>>, Cwd }
    /\ files = [f \in {StoreKey} |-> LatestVersion]
    /\ migrationRuns = [k \in Keys |-> IF k \in registry THEN 1 ELSE 0]
    /\ StoreStart

NextSessions ==
    \/ tick(SubPerMs)
    \/ new_validate(Reader, StoreConfig)
    \/ new_build_pool(Reader)
    \/ InitSchemaStep(Reader)
    \/ \E ttl \in Ttls :
          store_resource_with_ttl_begin(Writer, Resource("a", PayloadOf(nextId)), ttl)
    \/ store_resource_with_ttl_exec(Writer, "")
    \/ get_resource_begin(Reader, "a")
    \/ get_resource_select(Reader, "")
    \/ get_resource_update(Reader, "")
    \/ contains_resource(Reader, "a", "")

SpecSessions == InitSessions /\ [][NextSessions]_vars

----------------------------------------------------------------------------
(* Reads that hit, miss and fail, and clears, on one instance *)

NextCounters ==
    \/ tick(SubPerMs)
    \/ \E ttl \in Ttls :
          store_resource_with_ttl_begin(1, Resource("a", PayloadOf(nextId)), ttl)
    \/ store_resource_with_ttl_exec(1, "")
    \/ ReadSteps(1)
    \/ \E e \in AnyError : clear_resources(1, e)
    \/ \E e \in LateError : clear_history(1, e)

SpecCounters == InitStore /\ [][NextCounters]_vars

----------------------------------------------------------------------------
(* The pool of one instance shared by concurrent callers *)

\* A method taking &self (contains, list, search, the size) called by one
\* more task: with_connection, line 263, checks a connection out.
with_connection_get(i) ==
    /\ pc[i] = "done"
    /\ Checkout(i)
    /\ UNCHANGED storeVars

\* with_connection, line 269: one of the callers is through.
with_connection_drop(i) ==
    /\ pc[i] = "done"
    /\ pool[i].out > 0
    /\ Release(i)
    /\ UNCHANGED storeVars

\* r2d2 keeps min_idle connections idle: a thread of the pool opens one more
\* while fewer are idle and fewer than max_size are open.
pool_replenish(i) ==
    /\ pc[i] = "done"
    /\ pool[i].conns - pool[i].out < pool[i].min_idle
    /\ pool[i].conns < pool[i].max_size
    /\ pool' = [pool EXCEPT ![i].conns = @ + 1]
    /\ UNCHANGED <<pc, cfg, dbKey, result, curVer, migResult, registry, trackerLock, dirs,
                   files, migrationRuns>>
    /\ UNCHANGED storeVars

\* r2d2 closes an idle connection that has outlived max_lifetime (line 236).
pool_reap(i) ==
    /\ pc[i] = "done"
    /\ pool[i].conns > pool[i].out
    /\ pool' = [pool EXCEPT ![i].conns = @ - 1]
    /\ UNCHANGED <<pc, cfg, dbKey, result, curVer, migResult, registry, trackerLock, dirs,
                   files, migrationRuns>>
    /\ UNCHANGED storeVars

\* get_pool_stats, lines 815-822, over Pool::state
get_pool_stats(i) ==
    LET state == [connections |-> pool[i].conns,
                  idle_connections |-> pool[i].conns - pool[i].out]
    IN  [max_connections |-> pool[i].max_size,
         active_connections |-> state.connections - state.idle_connections,
         idle_connections |-> state.idle_connections]

PoolBounds == { None, Some(0), Some(1), Some(2) }

PoolConfigs ==
    { [database_path |-> <<"db">>, pool_min_connections |-> mn,
       pool_max_connections |-> mx, pool_connection_timeout |-> Some(1),
       pool_max_lifetime |-> Some(1)] :
      mn \in PoolBounds, mx \in PoolBounds \ {Some(0)} }

NextPool ==
    \/ \E c \in PoolConfigs : new_validate(1, c)
    \/ new_build_pool(1)
    \/ InitSchemaStep(1)
    \/ with_connection_get(1)
    \/ with_connection_drop(1)
    \/ pool_replenish(1)
    \/ pool_reap(1)

SpecPool == InitConstruct /\ [][NextPool]_vars

----------------------------------------------------------------------------
(* Operations of one instance while other callers hold its connections *)

\* with_connection, lines 263-265: pool.get() hands out a connection, or,
\* when max_size connections are checked out until the timeout is over,
\* fails.
AcquireOutcomes(i) == IF CanCheckout(pool[i]) THEN {""} ELSE AcquireErrors

\* The connections the call in progress holds: get and clear run two
\* statements on the connection they checked out.
Holding(i) == IF op[i].phase \in {"update", "history"} THEN 1 ELSE 0

NextExhaust ==
    \/ tick(SubPerMs)
    \/ with_connection_get(1)
    \/ pool[1].out > Holding(1) /\ with_connection_drop(1)
    \/ \E ttl \in Ttls :
          store_resource_with_ttl_begin(1, Resource("a", PayloadOf(nextId)), ttl)
    \/ \E e \in AcquireOutcomes(1) : store_resource_with_ttl_exec(1, e)
    \/ get_resource_begin(1, "a")
    \/ \E e \in AcquireOutcomes(1) : get_resource_select(1, e)
    \/ get_resource_update(1, "")
    \/ \E e \in AcquireOutcomes(1) : contains_resource(1, "a", e)
    \/ \E e \in AcquireOutcomes(1) : remove_resource(1, "a", e)
    \/ \E e \in AcquireOutcomes(1) : clear_resources(1, e)
    \/ clear_history(1, "")
    \/ cleanup_expired_begin(1)
    \/ \E e \in AcquireOutcomes(1) : cleanup_expired_delete(1, e)
    \/ \E e \in AcquireOutcomes(1) : update_analytics_read(1, e, FALSE, FALSE)
    \/ \E e \in AcquireOutcomes(1) : update_analytics_insert(1, e)

SpecExhaust == InitStore /\ [][NextExhaust]_vars

----------------------------------------------------------------------------
(* A cache that has been used: three rows, a hit and a sweep *)

\* The rows after three stores (lines 403-426) and a get of "a" (lines
\* 473-481), all at StartClock: a plain resource that never expires, one
\* with a content type that expires after a millisecond, one with metadata
\* that never expires.
UsedRows ==
    LET res == << Resource("a", PayloadOf(1)),
                  [Resource("b", PayloadOf(2)) EXCEPT
                      !.info.mime_type = Some(CharsetType)],
                  [Resource("c", PayloadOf(3)) EXCEPT
                      !.info.metadata = [name |-> JsonStr(<<"n">>)]] >>
        ttl == <<0, SubPerMs, 0>>
        stored == [k \in 1..3 |-> NewRow(k, res[k], ttl[k], StartClock)]
        rs == insert_or_replace(
                  insert_or_replace(insert_or_replace({}, stored[1]), stored[2]),
                  stored[3])
    IN  {IF r.uri = "a"
         THEN [r EXCEPT !.accessed_at = timestamp_millis(StartClock),
                        !.access_count = @ + 1]
         ELSE r : r \in rs}

\* The state of a constructed cache after store a, store b, store c, get a
\* and cleanup_expired, all at StartClock: nothing had expired, the sweep
\* recounted the rows and wrote its snapshot.
InitUsed ==
    /\ Constructed
    /\ clock = StartClock
    /\ ticks = 0
    /\ rows = UsedRows
    /\ analytics =
          [i \in Inst |->
             IF i = 1
             THEN [CountHit(ZeroAnalytics(StartClock)) EXCEPT
                      !.cache_size_bytes = SumSizeBytes(UsedRows),
                      !.resource_count = Cardinality(UsedRows)]
             ELSE ZeroAnalytics(StartClock)]
    /\ history = << [timestamp |-> timestamp_millis(StartClock),
                     hit_rate |-> HitRate(1, 1), total_requests |-> 1,
                     cache_size |-> SumSizeBytes(UsedRows),
                     eviction_count |-> 0] >>
    /\ op = [i \in Inst |-> IdleOp]
    /\ nextId = 4
    /\ opsDone = 0
    /\ lastWrite = [u \in {"a", "b", "c"} |->
                      LET r == CHOOSE x \in UsedRows : x.uri = u
                      IN  r.src @@ [id |-> r.id]]
    /\ tasks = {}

NextUsed ==
    \/ tick(SubPerMs)
    \/ \E ttl \in Ttls :
          store_resource_with_ttl_begin(1, Resource("a", PayloadOf(nextId)), ttl)
    \/ store_resource_with_ttl_exec(1, "")
    \/ \E u \in {"a", "b"} : get_resource_begin(1, u)
    \/ get_resource_select(1, "")
    \/ get_resource_update(1, "")
    \/ \E u \in {"a", "b", "d"} : contains_resource(1, u, "")
    \/ \E u \in {"a", "b", "d"}, e \in AnyError : remove_resource(1, u, e)
    \/ \E e \in AnyError : clear_resources(1, e)
    \/ \E e \in LateError : clear_history(1, e)
    \/ \E e \in AnyError : get_cache_size(1, e)

SpecUsed == InitUsed /\ [][NextUsed]_vars

\* A URI that is also a letter of a content type and of a key, the letter of
\* a content type, a piece of a key, a letter in the other case, the wildcard
\* of LIKE, a sign of a content type, and a text in no row.
Queries == { <<"a">>, <<"t">>, <<"m", "e">>, <<"N">>, <<"_">>, <<"=">>, <<"z">> }

NextReads ==
    \/ tick(SubPerMs)
    \/ \E ttl \in Ttls :
          store_resource_with_ttl_begin(1, Resource("a", PayloadOf(nextId)), ttl)
    \/ store_resource_with_ttl_exec(1, "")
    \/ \E u \in {"a", "c"} : get_resource_begin(1, u)
    \/ get_resource_select(1, "")
    \/ get_resource_update(1, "")
    \/ \E u \in {"a", "b"}, e \in AnyError : contains_resource(1, u, e)
    \/ \E e \in AnyError : list_cached_resources(1, e)
    \/ \E q \in Queries, e \in AnyError : search_resources(1, q, e)

SpecReads == InitUsed /\ [][NextReads]_vars

----------------------------------------------------------------------------
(* Stores with a TTL below the resolution of the persisted timestamps *)

\* Never expiring, the shortest Duration of the model, which is less than a
\* millisecond, and one millisecond.
ShortTtls == {0, 1, SubPerMs}

NextShortTtl ==
    \/ \E d \in TickSteps : tick(d)
    \/ \E ttl \in ShortTtls :
          store_resource_with_ttl_begin(1, Resource("a", PayloadOf(nextId)), ttl)
    \/ store_resource_with_ttl_exec(1, "")
    \/ get_resource_begin(1, "a")
    \/ get_resource_select(1, "")
    \/ get_resource_update(1, "")

SpecShortTtl == InitStore /\ [][NextShortTtl]_vars

----------------------------------------------------------------------------
(* Every public operation, on a cache that has been used *)

NextCalls ==
    \/ tick(SubPerMs)
    \/ store_resource_with_ttl_begin(1, Resource("a", PayloadOf(nextId)), 0)
    \/ store_resource_with_ttl_exec(1, "")
    \/ get_resource_begin(1, "a")
    \/ get_resource_select(1, "")
    \/ get_resource_update(1, "")
    \/ contains_resource(1, "b", "")
    \/ list_cached_resources(1, "")
    \/ search_resources(1, <<"t">>, "")
    \/ remove_resource(1, "c", "")
    \/ clear_resources(1, "")
    \/ clear_history(1, "")
    \/ cleanup_expired_begin(1)
    \/ cleanup_expired_delete(1, "")
    \/ update_analytics_read(1, "", FALSE, FALSE)
    \/ update_analytics_insert(1, "")
    \/ get_cache_size(1, "")
    \/ \E e \in AnyError : compact(1, e)

SpecCalls == InitUsed /\ [][NextCalls]_vars

----------------------------------------------------------------------------
(* Stores and removes of two instances, one of which has counted the rows *)

NextDrift ==
    \/ \E u \in {"a", "d"} :
          store_resource_with_ttl_begin(1, Resource(u, PayloadOf(nextId)), 0)
    \/ store_resource_with_ttl_exec(1, "")
    \/ \E u \in {"a", "b", "d"} : remove_resource(1, u, "")
    \/ \E u \in {"a", "c"} : remove_resource(2, u, "")

SpecDrift == InitUsed /\ [][NextDrift]_vars

----------------------------------------------------------------------------
(* Sweeps, with the failures of their statements *)

NextSweep ==
    \/ tick(SubPerMs)
    \/ \E ttl \in Ttls :
          store_resource_with_ttl_begin(1, Resource("a", PayloadOf(nextId)), ttl)
    \/ store_resource_with_ttl_exec(1, "")
    \/ clear_resources(1, "")
    \/ clear_history(1, "")
    \/ cleanup_expired_begin(1)
    \/ \E e \in LateError : cleanup_expired_delete(1, e)
    \/ \E e \in AnyError, sizeFails, countFails \in BOOLEAN :
          update_analytics_read(1, e, sizeFails, countFails)
    \/ \E e \in LateError : update_analytics_insert(1, e)

SpecSweep == InitUsed /\ [][NextSweep]_vars

----------------------------------------------------------------------------
(* A store whose caller may be dropped while it awaits with_connection *)

\* with_connection, lines 261-262: store_resource_with_ttl (line 403) hands
\* its closure to spawn_blocking and awaits the JoinHandle.
with_connection_spawn(i) ==
    /\ op[i].kind = "store" /\ op[i].phase = "exec"
    /\ tasks' = tasks \cup {[id |-> op[i].row.id, inst |-> i, row |-> op[i].row,
                              state |-> "queued", result |-> <<>>,
                              caller |-> "awaiting", delivered |-> 0]}
    /\ op' = [op EXCEPT ![i].phase = "await"]
    /\ UNCHANGED <<clock, ticks, rows, history, analytics, nextId, opsDone,
                   lastWrite>>
    /\ UNCHANGED initVars

\* The future of the call is dropped at its await (line 270): the JoinHandle
\* goes with it, which detaches the closure and does not stop it.
with_connection_cancel(i) ==
    /\ op[i].kind = "store" /\ op[i].phase = "await"
    /\ tasks' = {IF t.id = op[i].row.id THEN [t EXCEPT !.caller = "cancelled"]
                 ELSE t : t \in tasks}
    /\ op' = [op EXCEPT ![i] = [IdleOp EXCEPT !.kind = "store", !.phase = "done",
                                              !.uri = op[i].uri,
                                              !.ret = <<"Cancelled">>]]
    /\ UNCHANGED <<clock, ticks, rows, history, analytics, nextId, opsDone,
                   lastWrite>>
    /\ UNCHANGED initVars

\* with_connection, lines 263-265, on a thread of the blocking pool
\* (AcquireOutcomes, inlined for the task's instance)
blocking_get(t) ==
    /\ t \in tasks /\ t.state = "queued"
    /\ IF CanCheckout(pool[t.inst])
       THEN /\ Checkout(t.inst)
            /\ tasks' = (tasks \ {t}) \cup {[t EXCEPT !.state = "running"]}
       ELSE /\ UNCHANGED initVars
            /\ tasks' = (tasks \ {t}) \cup
                           {[t EXCEPT !.state = "finished", !.result = Err("Pool")]}
    /\ UNCHANGED <<clock, ticks, rows, history, analytics, op, nextId, opsDone,
                   lastWrite>>

\* A closure that keeps its connection when a statement of it fails.
blocking_run_keeps_on_error(t, e) ==
    /\ t \in tasks /\ t.state = "running"
    /\ IF e = ""
       THEN /\ rows' = cleanup_expired_resources(insert_or_replace(rows, t.row), clock)
            /\ lastWrite' = MapInsert(lastWrite, t.row.uri, t.row.src @@ [id |-> t.id])
            /\ Release(t.inst)
       ELSE /\ UNCHANGED <<rows, lastWrite>>
            /\ UNCHANGED initVars
    /\ tasks' = (tasks \ {t}) \cup
                   {[t EXCEPT !.state = "finished",
                              !.result = IF e = "" THEN Ok(t.id) ELSE Err(e)]}
    /\ UNCHANGED <<clock, ticks, history, analytics, op, nextId, opsDone>>

\* with_connection, lines 267-269, around the closure of
\* store_resource_with_ttl (lines 404-426): the transaction, or the error of
\* a statement, or a panic; conn is dropped when the closure is left, by a
\* return or by unwinding.
blocking_run(t, e) ==
    /\ t \in tasks /\ t.state = "running"
    /\ IF e = ""
       THEN /\ rows' = cleanup_expired_resources(insert_or_replace(rows, t.row), clock)
            /\ lastWrite' = MapInsert(lastWrite, t.row.uri, t.row.src @@ [id |-> t.id])
       ELSE UNCHANGED <<rows, lastWrite>>
    /\ tasks' = (tasks \ {t}) \cup
                   {[t EXCEPT !.state = "finished",
                              !.result = IF e = "" THEN Ok(t.id) ELSE Err(e)]}
    /\ Release(t.inst)
    /\ UNCHANGED <<clock, ticks, history, analytics, op, nextId, opsDone>>

\* with_connection, lines 270-271, and store_resource_with_ttl, lines
\* 427-435: the caller is resumed with what the closure returned.
with_connection_join(i) ==
    /\ op[i].kind = "store" /\ op[i].phase = "await"
    /\ \E t \in tasks :
          /\ t.id = op[i].row.id /\ t.state = "finished"
          /\ tasks' = (tasks \ {t}) \cup
                         {[t EXCEPT !.caller = "joined", !.delivered = @ + 1]}
          /\ analytics' = IF t.result[1] = "Ok"
                          THEN [analytics EXCEPT
                                  ![i].resource_count = @ + 1,
                                  ![i].cache_size_bytes = @ + t.row.size_bytes]
                          ELSE analytics
          /\ Return(i, t.result)
    /\ UNCHANGED <<clock, ticks, rows, history, nextId, opsDone, lastWrite>>
    /\ UNCHANGED initVars

\* What a closure can end with once it has its connection.
ClosureOutcomes == {""} \cup StatementErrors \cup DispatchErrors

NextCancel ==
    \/ store_resource_with_ttl_begin(1, Resource("a", PayloadOf(nextId)), 0)
    \/ with_connection_spawn(1)
    \/ with_connection_cancel(1)
    \/ \E t \in tasks : blocking_get(t)
    \/ \E t \in tasks, e \in ClosureOutcomes : blocking_run(t, e)
    \/ with_connection_join(1)

\* The blocking pool runs every closure handed to it, pool.get() returns
\* within the timeout, and the statements of a closure end.
SpecCancel ==
    /\ InitStore
    /\ [][NextCancel]_vars
    /\ WF_vars(\E t \in tasks : blocking_get(t))
    /\ WF_vars(\E t \in tasks, e \in ClosureOutcomes : blocking_run(t, e))

----------------------------------------------------------------------------
(* Claims about construction *)

Ready(i) == result[i] = "Ok"

\* C1: when instances whose paths normalize to one key are constructed
\* concurrently, the pragma/migration step runs once in total for that key:
\* one instance runs it, the others return through the fast path or the
\* re-check.  Stated for the constructions that succeeded.
C1_MigrationStepRunsOnce ==
    \A i, j \in Inst :
        (i # j /\ Ready(i) /\ Ready(j) /\ dbKey[i] = dbKey[j])
        => migrationRuns[dbKey[i]] <= 1

\* The file a registry key denotes is at the latest schema version.
KeyHasSchema(k) == k \in DOMAIN files /\ files[k] = LatestVersion

ReadyHasSchema ==
    /\ \A i \in Inst :
          Ready(i) => LET t == OpenTarget(cfg[i].database_path, dirs, DOMAIN files)
                      IN  IsSome(t) /\ KeyHasSchema(Unwrap(t))
    /\ \A k \in registry : KeyHasSchema(k)

BenignMessages == { <<"table", "resources", "already", "exists">>,
                    <<"Duplicate", "column", "name">> }

\* C3: a migration that succeeded, or failed with a message holding "already
\* exists" or "duplicate", makes construction succeed and puts the key into
\* the registry; any other failure makes it fail with a storage error and
\* leaves the registry as it was.
C3_MigrationOutcomeClassified ==
    [][\A i \in Inst :
          (pc[i] = "classify" /\ pc'[i] # "classify") =>
              IF migResult[i].ok \/ migResult[i].msg \in BenignMessages
              THEN Ready(i)' /\ registry' = registry \cup {dbKey[i]}
              ELSE result'[i] = "Storage" /\ registry' = registry]_vars

\* A construction failed on its migration, the key was left out of the
\* registry, and another construction on the same key ran the step again.
C3_Witness ==
    \E i, j \in Inst :
        /\ result[i] = "Storage" /\ ~migResult[i].ok
        /\ dbKey[j] = dbKey[i] /\ Ready(j) /\ pc[j] = "done"
        /\ migrationRuns[dbKey[i]] = 2

StartState ==
    /\ registry = {}
    /\ dirs = { <<Root>>, Cwd }
    /\ files = << >>

\* C4: a configuration with an empty path, or with both pool bounds set and
\* min > max, is refused with a Validation error before a pool is built, a
\* file or directory is created and a registry entry is added.
C4_ValidationBeforeAnyEffect ==
    \A i \in Inst :
        (/\ pc[i] # "idle"
         /\ \/ cfg[i].database_path = <<>>
            \/ /\ cfg[i].pool_min_connections # None
               /\ cfg[i].pool_max_connections # None
               /\ cfg[i].pool_min_connections[1] > cfg[i].pool_max_connections[1])
        => /\ result[i] = "Validation"
           /\ pool[i] = NoPool
           /\ dbKey[i] = <<>>
           /\ StartState

C4_Witness ==
    \E i \in Inst :
        /\ result[i] = "Validation"
        /\ cfg[i].database_path # <<>>
        /\ cfg[i].pool_min_connections = Some(1)
        /\ cfg[i].pool_max_connections = Some(0)

\* C5: construction ends with a success or one typed error for every
\* combination of pool sizes (min set with max unset, max = 0, min = max = 0,
\* no timeout); none leads to a panic.
C5_ConstructNeverPanics ==
    \A i \in Inst :
        (/\ cfg[i].pool_connection_timeout # Some(0)
         /\ cfg[i].pool_max_lifetime # Some(0))
        => /\ pc[i] # "panicked"
           /\ result[i] \in {"none", "Ok", "Validation", "Pool", "Storage", "Dispatch"}

----------------------------------------------------------------------------
(* Claims about the store *)

OkReturn(i, kind) ==
    /\ op[i].kind = kind /\ op[i].phase \notin {"idle", "done"}
    /\ op'[i].phase = "done" /\ op'[i].ret[1] = "Ok"

\* The get reads a clock before the stored expiry of the write w.
BeforeExpiry(w, now) == w.ttl = 0 \/ timestamp_millis(w.t + w.ttl) > now

\* The charset the content types of RoundTripResources declare.
ExpectedCharset(ct) ==
    CASE ct = CharsetType -> Some(<<"k">>)
      [] ct = QuotedCharsetType -> Some(<<"u">>)
      [] ct = ParamsType -> Some(<<"k">>)
      [] OTHER -> None

\* The encoding derived for a resource: its explicit encoding, else the text
\* under the metadata's encoding key, else the charset of its content type.
DerivedEncoding(res) ==
    IF res.encoding # None THEN res.encoding
    ELSE IF "encoding" \in DOMAIN res.info.metadata
            /\ res.info.metadata["encoding"][1] = "s"
         THEN Some(res.info.metadata["encoding"][2])
    ELSE IF res.info.mime_type = None THEN None
    ELSE ExpectedCharset(Unwrap(res.info.mime_type))

\* C6: a get of a URI whose last write is a successful store, made before
\* that store's expiry, returns the stored bytes, the stored content type
\* and the encoding derived for the stored resource.
C6_RoundTrip ==
    [][\A i \in StoreInst :
        LET u == op[i].uri IN
        ( /\ OkReturn(i, "get")
          /\ u \in DOMAIN lastWrite
          /\ BeforeExpiry(lastWrite[u], op[i].now) )
        => LET c == op'[i].ret[2]
               res == lastWrite[u].res
           IN  /\ c # None
               /\ Unwrap(c).data = res.data
               /\ Unwrap(c).info.mime_type = res.info.mime_type
               /\ Unwrap(c).encoding = DerivedEncoding(res)]_vars

\* A get returned the two-byte payload with the charset of a quoted,
\* mixed-case content type.
C6_Witness ==
    /\ op[1].kind = "get" /\ op[1].phase = "done" /\ op[1].ret[1] = "Ok"
    /\ op[1].ret[2] # None
    /\ Unwrap(op[1].ret[2]).data = <<195, 169>>
    /\ Unwrap(op[1].ret[2]).info.mime_type = Some(QuotedCharsetType)
    /\ Unwrap(op[1].ret[2]).encoding = Some(<<"u">>)
    /\ ticks > 0

ZeroTtlRowKept ==
    \A u \in DOMAIN lastWrite :
        lastWrite[u].ttl = 0 =>
            \E r \in rows : /\ r.uri = u /\ r.id = lastWrite[u].id
                            /\ r.expires_at = None

\* C7: a row stored with TTL 0 has no expires_at and stays in the store, at
\* any clock value and through sweeps and stores to other URIs, until its URI
\* is removed, cleared or stored to again; every get of its URI that returns
\* meanwhile returns it and is counted as a hit.
C7_ZeroTtlNeverExpires ==
    /\ []ZeroTtlRowKept
    /\ [][\A i \in StoreInst :
            LET u == op[i].uri IN
            ( /\ OkReturn(i, "get")
              /\ u \in DOMAIN lastWrite
              /\ lastWrite[u].ttl = 0 )
            => /\ op'[i].ret[2] # None
               /\ Unwrap(op'[i].ret[2]).data = lastWrite[u].res.data
               /\ analytics'[i].cache_hits = analytics[i].cache_hits + 1]_vars

\* After the clock advanced, a row expired and was swept, and another URI
\* was stored to, a get returned the row stored with TTL 0.
C7_Witness ==
    /\ op[1].kind = "get" /\ op[1].phase = "done" /\ op[1].ret[1] = "Ok"
    /\ op[1].ret[2] # None
    /\ op[1].uri \in DOMAIN lastWrite /\ lastWrite[op[1].uri].ttl = 0
    /\ "b" \in DOMAIN lastWrite
    /\ ticks > 0

\* A clock reading of `now` milliseconds can be one taken at or after t.
ReadAtOrAfter(now, t) == (now + 1) * SubPerMs > t

RowGone(r) == \A x \in rows' : x.id # r.id

SweepStep ==
    \E i \in StoreInst : /\ op[i].kind = "cleanup" /\ op[i].phase = "delete"
                         /\ op'[i].phase # "delete"

RemoveStep(u) ==
    \E i \in StoreInst : /\ opsDone' = opsDone + 1
                         /\ op'[i].kind = "remove" /\ op'[i].uri = u

ClearStep ==
    \E i \in StoreInst : /\ opsDone' = opsDone + 1 /\ op'[i].kind = "clear"

\* The upsert, with the trigger it fires.
InsertStep ==
    \E i \in StoreInst : /\ op[i].kind = "store" /\ op[i].phase = "exec"
                         /\ op'[i].phase = "done"

\* C8: when the last write of a URI is a store with TTL > 0 at time t, a get
\* of the URI that read the clock at t + TTL or later and returns, returns
\* absent and is counted as a miss; the get deletes nothing, and a row leaves
\* the store only by a sweep, a remove of its URI, a clear, or an insert (its
\* upsert or its trigger).
C8_ExpiredRowHiddenNotDeleted ==
    /\ [][\A i \in StoreInst :
            LET u == op[i].uri IN
            ( /\ OkReturn(i, "get")
              /\ u \in DOMAIN lastWrite
              /\ lastWrite[u].ttl > 0
              /\ ReadAtOrAfter(op[i].now, lastWrite[u].t + lastWrite[u].ttl) )
            => /\ op'[i].ret[2] = None
               /\ analytics'[i].cache_misses = analytics[i].cache_misses + 1
               /\ analytics'[i].total_requests = analytics[i].total_requests + 1
               /\ analytics'[i].cache_hits = analytics[i].cache_hits
               /\ rows' = rows]_vars
    /\ [][\A r \in rows :
            RowGone(r) => SweepStep \/ RemoveStep(r.uri) \/ ClearStep \/ InsertStep]_vars

\* A get of a URI stored with TTL > 0 returned absent while the expired row
\* was still in the store.
C8_Witness ==
    /\ op[1].kind = "get" /\ op[1].phase = "done" /\ op[1].ret = Ok(None)
    /\ op[1].uri \in DOMAIN lastWrite
    /\ lastWrite[op[1].uri].ttl > 0
    /\ \E r \in rows : r.id = lastWrite[op[1].uri].id
    /\ analytics[1].cache_misses = 1

SweepDeletes(i) ==
    /\ op[i].kind = "cleanup" /\ op[i].phase = "delete"
    /\ op'[i].phase = "analytics_read"

\* C9: the sweep that read the clock as `now` deletes exactly the rows whose
\* expires_at is non-null and <= now and changes no other row; these are the
\* rows the read filter hides at now, so contains is false for their URIs;
\* the count of the rows deleted is what the sweep returns.
C9_SweepDeletesExactlyExpired ==
    [][\A i \in StoreInst :
        /\ SweepDeletes(i) =>
              LET now == op[i].now
                  gone == rows \ rows'
              IN  /\ rows' \subseteq rows
                  /\ gone = {r \in rows : r.expires_at # None
                                          /\ Unwrap(r.expires_at) <= now}
                  /\ gone = {r \in rows : ~Visible(r, now)}
                  /\ op'[i].n = Cardinality(gone)
                  /\ \A r \in gone : ~contains_query(rows', r.uri, now)
        /\ OkReturn(i, "cleanup") => op'[i].ret[2] = op[i].n /\ rows' = rows]_vars

\* A sweep deleted one expired row, kept another row, and returned 1.
C9_Witness ==
    /\ op[1].kind = "cleanup" /\ op[1].phase = "done" /\ op[1].ret = Ok(1)
    /\ rows # {}
    /\ analytics[1].eviction_count = 1

OneRowPerUri == \A u \in Uris : Cardinality({r \in rows : r.uri = u}) <= 1

\* The row carries what the store that made `row` was given.
CarriesStore(r, row) ==
    /\ r.id = row.id
    /\ r.content = row.src.res.data
    /\ r.content_type = row.src.res.info.mime_type
    /\ from_json(r.metadata_json) = row.src.res.info.metadata
    /\ r.size_bytes = Len(row.src.res.data)
    /\ r.expires_at = IF row.src.ttl = 0 THEN None
                      ELSE Some(timestamp_millis(row.src.t + row.src.ttl))

\* C10: the store never holds two rows of one URI, and after a second
\* successful store to a URI that has a row, the URI has exactly one row,
\* which carries the id, content, content type, metadata, size and expiry of
\* the second store.
C10_UpsertKeepsSecondStore ==
    /\ []OneRowPerUri
    /\ [][\A i \in StoreInst :
            ( /\ OkReturn(i, "store")
              /\ \E r \in rows : r.uri = op[i].uri )
            => \E r \in rows' :
                  /\ {x \in rows' : x.uri = op[i].uri} = {r}
                  /\ CarriesStore(r, op[i].row)]_vars

----------------------------------------------------------------------------
(* Claims about concurrent stores *)

StoreCommits(i) ==
    /\ op[i].kind = "store" /\ op[i].phase = "exec"
    /\ op'[i].phase = "done"

GetSelects(i) ==
    /\ op[i].kind = "get" /\ op[i].phase = "select"
    /\ op'[i].phase # "select"

\* Every URI whose last store has not expired at the clock has its row, with
\* the id and the content of that store.
LiveWritesPresent ==
    \A u \in DOMAIN lastWrite :
        BeforeExpiry(lastWrite[u], timestamp_millis(clock)) =>
            \E r \in rows : /\ r.uri = u /\ r.id = lastWrite[u].id
                            /\ r.content = lastWrite[u].res.data

StoredColumns(r) == [r EXCEPT !.accessed_at = 0, !.access_count = 0]

RowOfWrite(w) == NewRow(w.id, w.res, w.ttl, w.t)

\* Every row is, column for column, the row of the last store committed to
\* its URI.
RowsAreWholeWrites ==
    \A r \in rows :
        /\ r.uri \in DOMAIN lastWrite
        /\ StoredColumns(r) = StoredColumns(RowOfWrite(lastWrite[r.uri]))
        /\ \A x \in rows : x.uri = r.uri => x = r

----------------------------------------------------------------------------
(* Claims about failing stores *)

\* A step of a store call of instance i.
StoreStep(i) ==
    \/ op[i].kind = "store" /\ op[i].phase = "exec" /\ op'[i] # op[i]
    \/ opsDone' = opsDone + 1 /\ op'[i].kind = "store"

\* The call ends with an error, or in the panic of the expiry's sum.
StoreFails(i) ==
    StoreStep(i) /\ op'[i].phase = "done" /\ op'[i].ret[1] \in {"Err", "Panic"}

\* C13: a store that returns an error (Validation for a TTL chrono refuses,
\* Pool, Client or Spawn from with_connection) leaves the rows, and with
\* them a previous row of its URI, and the counters resource_count and
\* cache_size_bytes as they were before the call; a store that returns
\* success has counted its row and, while the row has not expired, the row
\* is in the table and a get of the URI returns its content.
C13_StoreAllOrNothing ==
    [][/\ ( /\ StoreStep(1)
            /\ op'[1].phase = "exec" \/ StoreFails(1) )
          => /\ rows' = rows
             /\ lastWrite' = lastWrite
             /\ analytics'[1] = analytics[1]
       /\ OkReturn(1, "store")
          => /\ analytics'[1].resource_count = analytics[1].resource_count + 1
             /\ analytics'[1].cache_size_bytes =
                   analytics[1].cache_size_bytes + Len(op[1].row.content)
             /\ Visible(op[1].row, timestamp_millis(clock)) => op[1].row \in rows'
       /\ ( /\ OkReturn(1, "get")
            /\ op[1].uri \in DOMAIN lastWrite
            /\ BeforeExpiry(lastWrite[op[1].uri], op[1].now) )
          => /\ op'[1].ret[2] # None
             /\ Unwrap(op'[1].ret[2]).data = lastWrite[op[1].uri].res.data]_vars

\* A store to a URI that has a row failed on its statement; the row of the
\* earlier store and the counters are as that store left them.
C13_Witness ==
    /\ op[1].kind = "store" /\ op[1].phase = "done"
    /\ op[1].ret = Err("Client")
    /\ \E r \in rows : r.uri = op[1].uri /\ r.id = 1 /\ r.content = PayloadOf(1)
    /\ nextId = 3
    /\ analytics[1].resource_count = 1
    /\ analytics[1].cache_size_bytes = 1

----------------------------------------------------------------------------
(* Claims about path normalization *)

\* init_schema has normalized the instance's path.
Normalized(i) == pc[i] \in {"acquire", "recheck", "mkdir", "pragmas", "migrate",
                            "classify", "done"}

SpellingsAgree ==
    /\ \A i \in Inst : Normalized(i) => dbKey[i] = Cwd \o <<"db">>
    /\ \A p, q \in Spellings :
          normalize_db_path(p, dirs, DOMAIN files)
             = normalize_db_path(q, dirs, DOMAIN files)

\* C14: "./db", "db" and cwd + "/db" normalize to one registry key, while
\* the file does not exist and after it was created; so an instance
\* constructed with any of the spellings after an instance with another
\* spelling has become Ready returns through the registry's fast path, and
\* the pragma/migration step is not run again.
C14_SpellingsShareKey ==
    /\ []SpellingsAgree
    /\ [][\A j \in Inst :
            ( /\ pc[j] = "init" /\ pc'[j] # "init"
              /\ \E i \in Inst : i # j /\ Ready(i) )
            => /\ Ready(j)'
               /\ dbKey'[j] \in registry
               /\ migrationRuns' = migrationRuns]_vars

\* Two instances constructed with different spellings are Ready, one of them
\* through the fast path, and the step was run once.
C14_Witness ==
    \E i, j \in Inst :
        /\ Ready(i) /\ Ready(j)
        /\ cfg[i].database_path = <<CurDir, "db">>
        /\ cfg[j].database_path = Cwd \o <<"db">>
        /\ pool[j].conns = 0
        /\ migrationRuns[Cwd \o <<"db">>] = 1

\* C15: for every spelling of a file that does not exist, with any number
\* of "." and ".." segments, the normalized path is absolute, has no "." or
\* ".." segment, and normalizes to itself.
C15_NormalizedAbsoluteAndStable ==
    \A i \in Inst :
        ( /\ pc[i] = "acquire"
          /\ Canonicalize(cfg[i].database_path, dirs, DOMAIN files) = None )
        => /\ IsAbsolute(dbKey[i])
           /\ \A k \in 1..Len(dbKey[i]) : dbKey[i][k] \notin {CurDir, ParentDir}
           /\ normalize_db_path(dbKey[i], dirs, DOMAIN files) = dbKey[i]

----------------------------------------------------------------------------
(* Claims about the encoding a get returns *)

\* The text kept under the metadata key "encoding", if there is one.
StoredEncoding(metadata) ==
    IF "encoding" \in DOMAIN metadata /\ metadata["encoding"][1] = "s"
    THEN Some(metadata["encoding"][2]) ELSE None

\* C16: the encoding a get returns is the encoding given at store time,
\* which is kept under the metadata key "encoding", if there is one, whatever
\* the content type says; otherwise the value of the first content-type
\* parameter whose key is "charset" in any case, without its quotes and in
\* lower case; otherwise it is absent.
C16_EncodingPrecedence ==
    [][\A i \in StoreInst :
        LET u == op[i].uri IN
        ( /\ OkReturn(i, "get")
          /\ u \in DOMAIN lastWrite
          /\ BeforeExpiry(lastWrite[u], op[i].now) )
        => LET got == Unwrap(op'[i].ret[2]).encoding
               res == lastWrite[u].res
               kept == StoredEncoding(res.info.metadata)
               ct == res.info.mime_type
           IN  /\ op'[i].ret[2] # None
               /\ res.encoding # None => got = res.encoding
               /\ (res.encoding = None /\ kept # None) => got = kept
               /\ (res.encoding = None /\ kept = None /\ ct # None)
                     => got = ExpectedCharset(Unwrap(ct))
               /\ (res.encoding = None /\ kept = None /\ ct = None)
                     => got = None]_vars

\* A resource stored with the encoding E and a content type that declares a
\* charset was read back with the encoding E.
C16_Witness ==
    /\ op[1].kind = "get" /\ op[1].phase = "done" /\ op[1].ret[1] = "Ok"
    /\ op[1].ret[2] # None
    /\ Unwrap(op[1].ret[2]).info.mime_type = Some(ParamsType)
    /\ Unwrap(op[1].ret[2]).encoding = Some(<<"E">>)
    /\ op[1].uri \in DOMAIN lastWrite
    /\ lastWrite[op[1].uri].res.encoding = Some(<<"E">>)

----------------------------------------------------------------------------
(* Claims about the request counters *)

\* hit_rate, a fraction, is cache_hits / total_requests, and 0 without
\* requests.
HitRateIsRatio(a) ==
    IF a.total_requests > 0
    THEN /\ a.hit_rate[2] > 0
         /\ a.hit_rate[1] * a.total_requests = a.cache_hits * a.hit_rate[2]
    ELSE a.hit_rate[1] = 0 /\ a.hit_rate[2] > 0

\* C17: in every reachable state hit_rate is cache_hits / total_requests
\* when there were requests and 0 when there were none; a clear that returns
\* leaves no requests and the rate 0, and the first get, when it is a hit,
\* leaves the rate 1.
C17_HitRateIsRatio ==
    /\ [](\A i \in StoreInst : HitRateIsRatio(analytics[i]))
    /\ [][\A i \in StoreInst :
            /\ OkReturn(i, "clear")
               => /\ analytics'[i].total_requests = 0
                  /\ analytics'[i].hit_rate[1] = 0
            /\ ( /\ OkReturn(i, "get") /\ op'[i].ret[2] # None
                 /\ analytics[i].total_requests = 0 )
               => /\ analytics'[i].hit_rate[1] = analytics'[i].hit_rate[2]
                  /\ analytics'[i].cache_hits = 1
                  /\ analytics'[i].cache_misses = 0]_vars

\* After one hit and one miss the rate is one half.
C17_Witness ==
    /\ analytics[1].total_requests = 2
    /\ analytics[1].cache_hits = 1
    /\ analytics[1].cache_misses = 1
    /\ analytics[1].hit_rate = <<1, 2>>

\* A get call of instance i ends, with a value, with absent, or with an error.
GetEnds(i) ==
    /\ op[i].kind = "get" /\ op[i].phase \in {"select", "update"}
    /\ op'[i].phase = "done"

\* C18: every get call, whatever its outcome, adds 1 to total_requests and 1
\* to exactly one of cache_hits and cache_misses, so that total_requests =
\* cache_hits + cache_misses in every state and total_requests counts the
\* get calls made.
C18_EveryGetCounted ==
    /\ [](\A i \in StoreInst :
            analytics[i].total_requests
               = analytics[i].cache_hits + analytics[i].cache_misses)
    /\ [][\A i \in StoreInst :
            GetEnds(i) =>
               /\ analytics'[i].total_requests = analytics[i].total_requests + 1
               /\ \/ /\ analytics'[i].cache_hits = analytics[i].cache_hits + 1
                     /\ analytics'[i].cache_misses = analytics[i].cache_misses
                  \/ /\ analytics'[i].cache_hits = analytics[i].cache_hits
                     /\ analytics'[i].cache_misses = analytics[i].cache_misses + 1]_vars

----------------------------------------------------------------------------
(* Claims about the pool *)

PoolWithinBounds(i) ==
    LET stats == get_pool_stats(i)
        configured == IF cfg[i].pool_max_connections # None
                      THEN cfg[i].pool_max_connections[1]
                      ELSE R2d2DefaultMaxSize
    IN  /\ pool[i].out <= configured
        /\ stats.max_connections = configured
        /\ stats.active_connections = pool[i].conns - stats.idle_connections
        /\ stats.active_connections = pool[i].out
        /\ stats.idle_connections >= 0
        /\ stats.active_connections <= stats.max_connections

\* C20: in every state of a constructed instance, however many callers use
\* it, the connections checked out of its pool are at most the maximum of
\* its configuration (r2d2's default when none was set); get_pool_stats
\* reports that maximum as max_connections, and as active_connections the
\* open connections less the idle ones, which are the connections checked
\* out and never more than max_connections.
C20_PoolWithinBounds ==
    \A i \in Inst : pool[i].built => PoolWithinBounds(i)

\* Every connection the configuration allows is checked out.
C20_Witness ==
    /\ pc[1] = "done"
    /\ cfg[1].pool_max_connections = Some(2)
    /\ pool[1].out = 2
    /\ get_pool_stats(1) = [max_connections |-> 2, active_connections |-> 2,
                            idle_connections |-> 0]

----------------------------------------------------------------------------
(* Claims about instances sharing a file *)

ConstructStep(i) == pc'[i] # pc[i]

\* The step is a call of contains by instance i; the instances that store
\* do not call it.
ContainsReturns(i) ==
    /\ opsDone' = opsDone + 1
    /\ op'[i].kind = "contains" /\ op'[i].phase = "done"
    /\ \A j \in Inst \ {i} : op'[j] = op[j]

\* C19: a row stored through one instance and not expired is visible
\* through another instance on the file, whether that instance was
\* constructed before or after the store and whether its init_schema took
\* the fast path or ran the pragmas and the migration: its get finds the
\* row, returns the stored content and counts a hit, and its contains
\* returns true; no step of a construction changes a row.
C19_RowsSharedAcrossInstances ==
    /\ [][ConstructStep(Reader) => rows' = rows /\ history' = history]_vars
    /\ [][LET live == /\ "a" \in DOMAIN lastWrite
                       /\ BeforeExpiry(lastWrite["a"], timestamp_millis(clock))
          IN  /\ (GetSelects(Reader) /\ live)
                 => /\ op'[Reader].phase = "update"
                    /\ Unwrap(op'[Reader].found).id = lastWrite["a"].id
              /\ (OkReturn(Reader, "get") /\ op[Reader].phase = "update")
                 => /\ op'[Reader].ret[2] # None
                    /\ Unwrap(op'[Reader].ret[2]).data
                          = Unwrap(op[Reader].found).content
                    /\ analytics'[Reader].cache_hits
                          = analytics[Reader].cache_hits + 1
              /\ (ContainsReturns(Reader) /\ live)
                 => op'[Reader].ret = Ok(TRUE)]_vars

\* An instance constructed after the store began, in a process whose
\* registry was empty, ran the pragmas and the migration on the file and
\* then read the row the other instance had stored.
C19_Witness ==
    /\ op[Reader].kind = "get" /\ op[Reader].phase = "done"
    /\ op[Reader].ret[1] = "Ok" /\ op[Reader].ret[2] # None
    /\ "a" \in DOMAIN lastWrite
    /\ Unwrap(op[Reader].ret[2]).data = lastWrite["a"].res.data
    /\ curVer[Reader] = LatestVersion
    /\ migResult[Reader].ok
    /\ analytics[Reader].last_cleanup > lastWrite["a"].t


----------------------------------------------------------------------------
(* Claims about failures to acquire a connection *)

\* A call of instance i returns the error e in this step.
ErrReturn(i, e) ==
    /\ op'[i] # op[i]
    /\ op'[i].phase = "done"
    /\ op'[i].ret = Err(e)

\* The call in progress has run a statement on the engine: an operation in
\* one of these phases is past a statement of its own.
StatementsRun(i) ==
    op[i].phase \in {"update", "history", "analytics_read", "analytics_insert"}

\* A step of a call of instance i in which with_connection asks the pool
\* for a connection: every step of a call but the one that reads the clock
\* (or refuses the TTL) and the second statement on a connection it holds.
AcquiringStep(i) ==
    /\ op'[i] # op[i]
    /\ Holding(i) = 0
    /\ op'[i].phase \notin {"exec", "select", "delete"}
    /\ ~(op'[i].kind = "store" /\ op[i].phase \in {"idle", "done"})

\* C21: a call that finds every connection of the pool checked out until
\* the timeout is over returns a Pool error, which is not a Storage error;
\* a call that returns a Pool error has run no statement on the engine, and
\* its return leaves the rows, the history and the counters as they were.
C21_PoolErrorWithoutEffect ==
    [][\A i \in StoreInst :
          /\ (AcquiringStep(i) /\ ~CanCheckout(pool[i]))
                => /\ ErrReturn(i, "Pool")
                   /\ op'[i].ret # Err("Storage")
          /\ ErrReturn(i, "Pool")
                => /\ ~StatementsRun(i)
                   /\ rows' = rows
                   /\ history' = history
                   /\ analytics' = analytics]_vars


----------------------------------------------------------------------------
(* Claims about a caller that is dropped *)

\* The ids the stores of the model can get.
TaskIds == 1..(MaxOps + 1)

Dispatched(id) == \E t \in tasks : t.id = id

Finished(id) == \E t \in tasks : t.id = id /\ t.state = "finished"

\* The step is the end of the closure t, by a return or by a panic.
ClosureEnds(t) ==
    /\ t \in tasks /\ t.state = "running"
    /\ \E x \in tasks' : x.id = t.id /\ x.state = "finished"

\* C22: when the caller of a store is dropped after its closure went to
\* spawn_blocking, the closure is still run to its end: it gets a
\* connection or the pool's error, and with a connection its transaction
\* writes the row as for a caller that waits.  The connection goes back to
\* the pool when the closure ends, whether it returned a value, an error or
\* panicked, so that the connections checked out are those of the closures
\* that are running.  What the closure returned reaches its caller at most
\* once, and never a caller that was dropped.
C22_CancelledWorkCompletes ==
    /\ \A id \in TaskIds : Dispatched(id) ~> Finished(id)
    /\ [](\A i \in StoreInst :
            pool[i].out = Cardinality({t \in tasks : t.inst = i /\ t.state = "running"}))
    /\ [](\A t \in tasks :
            /\ t.delivered <= 1
            /\ t.caller = "cancelled" => t.delivered = 0)
    /\ [][\A t \in tasks :
            /\ ClosureEnds(t)
                 => /\ pool'[t.inst].out = pool[t.inst].out - 1
                    /\ op' = op /\ analytics' = analytics
                    /\ (\E x \in tasks' : x.id = t.id /\ x.result = Ok(t.id))
                          => /\ t.row \in rows'
                             /\ \A r \in rows' : r.uri = t.row.uri => r = t.row
            /\ t.caller = "cancelled"
                 => \E x \in tasks' : x.id = t.id /\ x.caller = "cancelled"]_vars

\* The caller of a store was dropped; the closure then ran and committed the
\* row, the connection is back, and the caller has stored again and been
\* resumed with the id of its second row.
C22_Witness ==
    /\ \E t \in tasks : /\ t.caller = "cancelled" /\ t.state = "finished"
                         /\ t.result = Ok(t.id) /\ t.delivered = 0
    /\ \E t \in tasks : /\ t.caller = "cancelled" /\ t.state = "finished"
                         /\ t.result[1] = "Err"
    /\ \E t \in tasks : t.caller = "joined" /\ op[1].ret = Ok(t.id)
    /\ pool[1].out = 0


----------------------------------------------------------------------------
(* Claims about clear, remove and the reads *)

\* The call clear of instance i returns success in this step.
ClearReturns(i) ==
    /\ op[i].kind = "clear" /\ op[i].phase = "history"
    /\ op'[i].phase = "done" /\ op'[i].ret[1] = "Ok"

\* The last call of instance i was a clear that returned success.
Cleared(i) ==
    op[i].kind = "clear" /\ op[i].phase = "done" /\ op[i].ret[1] = "Ok"

CountersZero(a) ==
    /\ a.total_requests = 0 /\ a.cache_hits = 0 /\ a.cache_misses = 0
    /\ a.hit_rate = HitRate(0, 0)
    /\ a.cache_size_bytes = 0 /\ a.resource_count = 0 /\ a.eviction_count = 0

\* C23: when clear returns success, the table of the resources and the
\* table of the analytics history are empty and every counter of the
\* instance is 0, and this stays so until its next call; the instance is as
\* constructed (its pool, the registry and the schema of the file are not
\* touched), and once the history has been cleared a store still returns the
\* id of its row, which is in the table, and a get of a row that has not
\* expired still finds it and returns its content.
C23_ClearEmptiesAndStaysReady ==
    /\ [][\A i \in StoreInst :
            ClearReturns(i)
               => /\ rows' = {} /\ history' = <<>>
                  /\ CountersZero(analytics'[i])
                  /\ pool'[i].out = 0
                  /\ <<pc, cfg, dbKey, result, registry, files>>'
                        = <<pc, cfg, dbKey, result, registry, files>>]_vars
    /\ [](\A i \in StoreInst :
            Cleared(i) => /\ rows = {} /\ history = <<>>
                          /\ CountersZero(analytics[i])
                          /\ Ready(i) /\ pc[i] = "done"
                          /\ KeyHasSchema(dbKey[i]))
    /\ [][\A i \in StoreInst :
            history = <<>>
               => /\ StoreCommits(i)
                     => /\ op'[i].ret = Ok(op[i].row.id)
                        /\ op[i].row.expires_at = None => op[i].row \in rows'
                  /\ (GetSelects(i) /\ op[i].uri \in DOMAIN lastWrite
                         /\ BeforeExpiry(lastWrite[op[i].uri], op[i].now))
                     => /\ op'[i].phase = "update"
                        /\ Unwrap(op'[i].found).content
                              = lastWrite[op[i].uri].res.data]_vars

\* The used cache was cleared; its next calls stored a resource and got it
\* back, as the one hit of the counters that restarted at 0.
C23_Witness ==
    /\ history = <<>>
    /\ op[1].kind = "get" /\ op[1].phase = "done" /\ op[1].ret[1] = "Ok"
    /\ op[1].ret[2] # None
    /\ Unwrap(op[1].ret[2]).data = PayloadOf(4)
    /\ analytics[1].total_requests = 1 /\ analytics[1].cache_hits = 1
    /\ analytics[1].resource_count = 1
    /\ Cardinality(rows) = 1


\* The step is a call of the one-step operation kind by instance i.
Calls(i, kind) ==
    /\ opsDone' = opsDone + 1
    /\ op'[i].kind = kind /\ op'[i].phase = "done"

HasRow(rs, uri) == \E r \in rs : r.uri = uri

\* C24: a remove that returns success has deleted the row of its URI if
\* there was one, whether it had expired or not, and no other row; it
\* returns true when there was such a row and false when there was none;
\* the URI then has no row until the next call, and a contains of a URI
\* without a row returns false.  A remove that returns an error has deleted
\* nothing.
C24_RemoveDeletesTheRow ==
    /\ [][\A i \in StoreInst :
            /\ (Calls(i, "remove") /\ op'[i].ret[1] = "Ok")
                  => /\ rows' = {r \in rows : r.uri # op'[i].uri}
                     /\ op'[i].ret = Ok(HasRow(rows, op'[i].uri))
            /\ (Calls(i, "remove") /\ op'[i].ret[1] = "Err") => rows' = rows
            /\ (Calls(i, "contains") /\ ~HasRow(rows, op'[i].uri))
                  => op'[i].ret = Ok(FALSE)]_vars
    /\ [](\A i \in StoreInst :
            (op[i].kind = "remove" /\ op[i].phase = "done" /\ op[i].ret[1] = "Ok")
               => /\ ~HasRow(rows, op[i].uri)
                  /\ ~contains_query(rows, op[i].uri, timestamp_millis(clock)))

\* A get of "b" missed, the row being past its expiry and still in the
\* table; the remove of "b" that followed deleted it and returned true.
C24_Witness ==
    /\ op[1].kind = "remove" /\ op[1].uri = "b" /\ op[1].ret = Ok(TRUE)
    /\ opsDone = 2
    /\ analytics[1].cache_misses = 1
    /\ {r.uri : r \in rows} = {"a", "c"}


\* A row that stays in the table has its access columns changed.
AccessStatsChange ==
    \E r \in rows, x \in rows' :
        /\ x.id = r.id
        /\ x.accessed_at # r.accessed_at \/ x.access_count # r.access_count

RequestCounters(a) ==
    <<a.total_requests, a.cache_hits, a.cache_misses, a.hit_rate>>

\* C25: a call of contains, of list or of search, whatever it returns,
\* leaves every row as it was, accessed_at and access_count included, and
\* every counter of the instance; the access columns of a row change only
\* in the UPDATE of a get that hit, and the request counters only when a
\* get returns.
C25_ReadsLeaveNoTrace ==
    /\ [][\A i \in StoreInst :
            (Calls(i, "contains") \/ Calls(i, "list") \/ Calls(i, "search"))
               => /\ rows' = rows
                  /\ analytics' = analytics
                  /\ history' = history]_vars
    /\ [][AccessStatsChange
            => \E i \in StoreInst : /\ op[i].kind = "get" /\ op[i].phase = "update"
                                     /\ op'[i].ret[1] = "Ok"]_vars
    /\ [][\A i \in StoreInst :
            RequestCounters(analytics'[i]) # RequestCounters(analytics[i])
               => GetEnds(i)]_vars

\* Three calls among contains, list and search on the used cache, the last
\* one a list that returned its three rows: the rows and the counters are
\* those the cache began with.
C25_Witness ==
    /\ op[1].kind = "list" /\ op[1].ret[1] = "Ok" /\ Len(op[1].ret[2]) = 3
    /\ opsDone = 3
    /\ rows = UsedRows
    /\ analytics[1].total_requests = 1
    /\ analytics[1].resource_count = 3


\* The sequence s holds each of the rows rs once, as CachedResource, and no
\* other, by non-increasing accessed_at.
ListsExactly(s, rs) ==
    /\ Len(s) = Cardinality(rs)
    /\ {s[k] : k \in DOMAIN s} = {CachedResourceOf(r) : r \in rs}
    /\ \A k \in 1..(Len(s) - 1) : s[k].accessed_at >= s[k + 1].accessed_at

\* The last call of instance i was a get that returned the row of uri.
JustHit(i, uri) ==
    /\ op[i].kind = "get" /\ op[i].phase = "done" /\ op[i].uri = uri
    /\ op[i].ret[1] = "Ok" /\ op[i].ret[2] # None

\* C26: a list called when the clock shows the millisecond now returns the
\* rows whose expires_at is null or greater than now, each once, and no
\* other row, by non-increasing accessed_at.  The UPDATE of a get that hit
\* gives its row an accessed_at that no row exceeds, so that a list called
\* next has this row, while it has not expired, before every row with an
\* earlier accessed_at.
C26_ListLiveRowsByAccess ==
    /\ [][\A i \in StoreInst :
            (Calls(i, "list") /\ op'[i].ret[1] = "Ok")
               => LET now == timestamp_millis(clock)
                      s == op'[i].ret[2]
                  IN  /\ ListsExactly(s, {r \in rows :
                                            \/ r.expires_at = None
                                            \/ Unwrap(r.expires_at) > now})
                      /\ \A r \in rows :
                            (JustHit(i, r.uri) /\ Visible(r, now))
                               => \E j \in DOMAIN s :
                                     /\ s[j].uri = r.uri
                                     /\ \A k \in DOMAIN s :
                                           s[k].accessed_at < s[j].accessed_at
                                              => j < k]_vars
    /\ [][\A i \in StoreInst :
            (/\ op[i].kind = "get" /\ op[i].phase = "update"
             /\ op'[i].phase = "done" /\ op'[i].ret[1] = "Ok")
               => \E x \in rows' :
                     /\ x.uri = op[i].uri
                     /\ x.accessed_at = op[i].now
                     /\ \A r \in rows' : r.accessed_at <= x.accessed_at]_vars

\* A millisecond after the start a get hit "c"; the list that follows has
\* "c" before "a", accessed in the millisecond before, and leaves out "b",
\* which has expired and is still in the table.
C26_Witness ==
    /\ op[1].kind = "list" /\ op[1].ret[1] = "Ok"
    /\ Len(op[1].ret[2]) = 2
    /\ op[1].ret[2][1].uri = "c" /\ op[1].ret[2][2].uri = "a"
    /\ op[1].ret[2][1].accessed_at > op[1].ret[2][2].accessed_at
    /\ \E r \in rows : r.uri = "b" /\ Expired(r, op[1].now)


\* The text q occurs in the text t, character by character.
Occurs(q, t) ==
    \E k \in 0..(Len(t) - Len(q)) : SubSeq(t, k + 1, k + Len(q)) = q

\* The three texts of a row that a search looks into.
SearchedTexts(r) ==
    {<<r.uri>>, JsonText(r.metadata_json)}
       \cup (IF IsSome(r.content_type) THEN {Unwrap(r.content_type)} ELSE {})

\* The query has no wildcard of LIKE and no ASCII letter.
PlainQuery(q) ==
    \A k \in DOMAIN q :
       /\ q[k] \notin {"%", "_"}
       /\ \A n \in DOMAIN UpperChars : q[k] # UpperChars[n] /\ q[k] # LowerChars[n]

\* The rows of a search that returned Ok in this step, for a given test of
\* a row against the query.
SearchReturns(i, Matches(_, _)) ==
    LET now == timestamp_millis(clock)
        q == op'[i].query
    IN  ListsExactly(op'[i].ret[2],
                     {r \in rows : /\ r.expires_at = None \/ Unwrap(r.expires_at) > now
                                   /\ Matches(q, r)})

SubstringMatch(q, r) == \E t \in SearchedTexts(r) : Occurs(q, t)

LikeMatch(q, r) == \E t \in SearchedTexts(r) : Like(<<"%">> \o q \o <<"%">>, t)

\* C27 as stated: a search returns exactly the rows that have not expired
\* and have the query as a substring of the uri, of the content type or of
\* the metadata text, and no other row; its result is within what a list
\* returns at the same clock value.
C27_SearchExactSubstring ==
    [][\A i \in StoreInst :
          (Calls(i, "search") /\ op'[i].ret[1] = "Ok")
             => /\ SearchReturns(i, SubstringMatch)
                /\ \A k \in DOMAIN op'[i].ret[2] :
                      \E r \in rows : /\ Visible(r, timestamp_millis(clock))
                                       /\ op'[i].ret[2][k] = CachedResourceOf(r)]_vars

\* C27, amended: a search returns exactly the rows that have not expired
\* (the filter of list) and of which the uri, the content type or the
\* metadata text matches %query% under LIKE, where a _ of the query stands
\* for any one character, a % for any text, and ASCII letters match in
\* either case.  Every live row that has the query as a substring is
\* returned; for a query without wildcards and ASCII letters no other row
\* is.  The result is within what a list returns at the same clock value.
C27_SearchLikeMatch ==
    [][\A i \in StoreInst :
          (Calls(i, "search") /\ op'[i].ret[1] = "Ok")
             => LET now == timestamp_millis(clock)
                    s == op'[i].ret[2]
                    q == op'[i].query
                IN  /\ SearchReturns(i, LikeMatch)
                    /\ \A r \in rows :
                          (Visible(r, now) /\ SubstringMatch(q, r))
                             => \E k \in DOMAIN s : s[k] = CachedResourceOf(r)
                    /\ PlainQuery(q) => SearchReturns(i, SubstringMatch)
                    /\ \A k \in DOMAIN s :
                          \E r \in rows : /\ Visible(r, now)
                                           /\ s[k] = CachedResourceOf(r)]_vars

\* A search for N returned the row "c", in which only n occurs, while the
\* row "b" has expired and is still in the table.
C27_Witness ==
    /\ op[1].kind = "search" /\ op[1].query = <<"N">> /\ op[1].ret[1] = "Ok"
    /\ Len(op[1].ret[2]) = 1 /\ op[1].ret[2][1].uri = "c"
    /\ \E r \in rows : r.uri = "b" /\ Expired(r, op[1].now)


\* The bytes of the contents that the stores of the rows rs were given.
RECURSIVE WrittenBytes(_)
WrittenBytes(rs) ==
    IF rs = {} THEN 0
    ELSE LET r == CHOOSE x \in rs : TRUE
         IN  Len(r.src.res.data) + WrittenBytes(rs \ {r})

\* C28: the size_bytes of a row is the length of the content that the store
\* which wrote the row was given; a get_cache_size that returns Ok returns
\* the sum of it over all the rows of the table, those that have expired and
\* are not swept included, and 0 when the table has no row.
C28_SizeSumsAllRows ==
    /\ \A r \in rows : r.size_bytes = Len(r.src.res.data) /\ r.content = r.src.res.data
    /\ \A i \in StoreInst :
          (op[i].kind = "size" /\ op[i].ret # <<>> /\ op[i].ret[1] = "Ok")
             => /\ op[i].ret[2] = WrittenBytes(rows)
                /\ rows = {} => op[i].ret[2] = 0

\* The size returned counts the two bytes of "b", which expired a
\* millisecond ago and which no sweep has deleted.
C28_Witness ==
    /\ op[1].kind = "size" /\ op[1].ret # <<>> /\ op[1].ret[1] = "Ok"
    /\ \E r \in rows : /\ r.uri = "b" /\ r.size_bytes = 2
                        /\ Expired(r, timestamp_millis(clock))
    /\ op[1].ret[2] >= 2
    /\ op[1].ret[2] > WrittenBytes({r \in rows : Visible(r, timestamp_millis(clock))})


\* C29: a row that has an expires_at has it greater than its created_at,
\* both in whole milliseconds as they are written, for every TTL other than
\* zero that a store accepts, those below a millisecond included.
C29_ExpiryAfterCreation ==
    \A r \in rows :
       r.expires_at # None => Unwrap(r.expires_at) > r.created_at

\* The same for the rows written with a TTL of a millisecond or more.
WholeMsTtlExpiresLater ==
    \A r \in rows :
       (r.expires_at # None /\ r.src.ttl >= SubPerMs)
          => Unwrap(r.expires_at) > r.created_at


----------------------------------------------------------------------------
(* Claims about the connections of a call *)

\* C30: a call of store, get, contains, list, search, remove, clear,
\* cleanup_expired, get_cache_size or compact asks the pool for a connection
\* once: a call that has run a statement on a connection does not ask for
\* another, and a call that returns Ok has asked for one.
C30_OneConnectionPerCall ==
    [][\A i \in StoreInst :
          /\ AcquiringStep(i) => ~StatementsRun(i)
          /\ (op'[i] # op[i] /\ op'[i].phase = "done" /\ op'[i].ret[1] = "Ok")
                => (AcquiringStep(i) \/ Holding(i) = 1)]_vars

\* The same for every call but cleanup_expired.
OneConnectionPerCallButSweep ==
    [][\A i \in StoreInst :
          op[i].kind # "cleanup"
             => /\ AcquiringStep(i) => ~StatementsRun(i)
                /\ (op'[i] # op[i] /\ op'[i].phase = "done" /\ op'[i].ret[1] = "Ok")
                      => (AcquiringStep(i) \/ Holding(i) = 1)]_vars


----------------------------------------------------------------------------
(* Claims about the Mutex of the registry *)

\* The steps of init_schema that look into the registry or insert into it.
RegistrySteps == {"init", "recheck", "classify"}

\* C31: an initializer that holds the Mutex of the registry is at a lookup
\* or at the insert, and its next step drops the Mutex: that step asks for
\* no connection, opens none, creates no directory or file and runs no
\* pragma or migration.  The Mutex is thus never held over engine work, and
\* the initializers that do engine work do it while the Mutex is free or
\* held by another at its lookup.
C31_MutexOnlyAroundRegistry ==
    /\ [](\A i \in Inst : trackerLock = i => pc[i] \in RegistrySteps)
    /\ [][\A i \in Inst :
            (trackerLock = i /\ pc'[i] # pc[i])
               => /\ trackerLock' = 0
                  /\ pool'[i].out <= pool[i].out
                  /\ pool'[i].conns = pool[i].conns
                  /\ <<dirs, files, migrationRuns, curVer>>'
                        = <<dirs, files, migrationRuns, curVer>>
                  /\ registry' \subseteq registry \cup {dbKey'[i]}]_vars
    /\ [][\A i \in Inst :
            (pc[i] \in {"acquire", "mkdir", "pragmas", "migrate"} /\ pc'[i] # pc[i])
               => trackerLock # i /\ trackerLock' = trackerLock]_vars

\* Instance 1 holds the Mutex for its second check, on a connection it has
\* checked out, while instance 2 is in its engine work.
C31_Witness ==
    /\ trackerLock = 1 /\ pc[1] = "recheck" /\ pool[1].out = 1
    /\ pc[2] \in {"mkdir", "pragmas", "migrate"}


----------------------------------------------------------------------------
(* Claims about gets next to the operations of other instances *)

\* The step is the UPDATE of a get of instance i that returns its hit.
HitReturns(i) ==
    /\ op[i].kind = "get" /\ op[i].phase = "update"
    /\ op'[i].phase = "done" /\ op'[i].ret[1] = "Ok"

\* C32: when a get returns a hit, the row it has read is still the row of
\* its URI: no store, remove or sweep of another instance has replaced or
\* deleted it between the SELECT and the UPDATE, and the UPDATE counts the
\* access on that very row.
C32_HitReadAndTouchAtomic ==
    [][\A i \in Inst :
          HitReturns(i)
             => LET found == Unwrap(op[i].found) IN
                /\ \E r \in rows : r.id = found.id
                /\ \E r \in rows' : /\ r.id = found.id
                                     /\ r.accessed_at = op[i].now]_vars


----------------------------------------------------------------------------
(* Claims about the trigger *)

\* The rows that the trigger of this step deleted: those gone that the
\* upsert did not replace.
TriggerDeleted(i) ==
    {r \in insert_or_replace(rows, op[i].row) : r \notin rows'}

\* The trigger deletes only rows that have expired at the clock of its step.
TriggerDeletesOnlyExpired ==
    [][\A i \in Inst :
          (StoreCommits(i) /\ op'[i].ret[1] = "Ok")
             => \A r \in TriggerDeleted(i) : Expired(r, timestamp_millis(clock))]_vars

\* C33: the trigger that runs after the insert of a store deletes only rows
\* that have expired, no row whose expires_at is null or later than the
\* clock, and never the row that the store has just inserted.
C33_TriggerSparesLiveAndNewRows ==
    [][\A i \in Inst :
          (StoreCommits(i) /\ op'[i].ret[1] = "Ok")
             => /\ \A r \in TriggerDeleted(i) : Expired(r, timestamp_millis(clock))
                /\ op[i].row \notin TriggerDeleted(i)]_vars


----------------------------------------------------------------------------
(* Claims about the reconciliation of the counters *)

\* The step takes the cleanup_expired of instance i from one phase to the
\* next.
SweepPhase(i, from, to) ==
    /\ op[i].kind = "cleanup" /\ op[i].phase = from
    /\ op'[i].phase = to
    /\ to = "done" => op'[i].ret[1] = "Ok"

\* What every step of a sweep that goes on does, but for the values that
\* the reconciliation reads: the count of the DELETE is added to
\* eviction_count and returned, one snapshot is appended, and the history
\* changes in no other step but that of a clear, which empties it.
SweepCountsAndSnapshot(i) ==
    /\ SweepPhase(i, "delete", "analytics_read")
          => /\ op'[i].n = Cardinality(rows \ rows')
             /\ analytics'[i].eviction_count
                   = analytics[i].eviction_count + op'[i].n
    /\ SweepPhase(i, "analytics_insert", "done")
          => /\ op'[i].ret[2] = op[i].n
             /\ analytics' = analytics
             /\ Len(history') = Len(history) + 1
             /\ SubSeq(history', 1, Len(history)) = history
    /\ history' # history
          => \/ SweepPhase(i, "analytics_insert", "done")
             \/ op[i].kind = "clear" /\ history' = <<>>

\* C34: a cleanup_expired that succeeds has added the count it returns to
\* eviction_count, has set cache_size_bytes and resource_count to the sum of
\* size_bytes and the number of the rows that were in the table when its
\* reconciliation read them, and has appended one row to the history; no
\* other operation appends to the history and only clear deletes from it.
C34_SweepReconciles ==
    [][\A i \in StoreInst :
          /\ SweepCountsAndSnapshot(i)
          /\ SweepPhase(i, "analytics_read", "analytics_insert")
                => /\ analytics'[i].cache_size_bytes = SumSizeBytes(rows)
                   /\ analytics'[i].resource_count = Cardinality(rows)]_vars

\* The same, the reconciliation setting a counter to the value in the table
\* or to 0.
SweepReconcilesOrZeroes ==
    [][\A i \in StoreInst :
          /\ SweepCountsAndSnapshot(i)
          /\ SweepPhase(i, "analytics_read", "analytics_insert")
                => /\ analytics'[i].cache_size_bytes \in {0, SumSizeBytes(rows)}
                   /\ analytics'[i].resource_count \in {0, Cardinality(rows)}]_vars


----------------------------------------------------------------------------
(* Claims about the counters between two reconciliations *)

\* C35: a store that succeeds adds 1 to resource_count and the length of its
\* payload to cache_size_bytes of its instance, also when the upsert has
\* replaced a row of the URI; a remove that deleted a row takes 1 from
\* resource_count, which stays at 0 when it is 0, and leaves
\* cache_size_bytes as it is; a remove that found no row changes neither.
C35_CountersDriftFromRows ==
    [][\A i \in Inst :
          /\ (StoreCommits(i) /\ op'[i].ret[1] = "Ok")
                => /\ analytics'[i].resource_count = analytics[i].resource_count + 1
                   /\ analytics'[i].cache_size_bytes
                         = analytics[i].cache_size_bytes + Len(op[i].row.src.res.data)
          /\ (Calls(i, "remove") /\ op'[i] # op[i] /\ op'[i].ret[1] = "Ok")
                => /\ op'[i].ret[2] = HasRow(rows, op'[i].uri)
                   /\ analytics'[i].resource_count
                         = IF ~op'[i].ret[2] \/ analytics[i].resource_count = 0
                           THEN analytics[i].resource_count
                           ELSE analytics[i].resource_count - 1
                   /\ analytics'[i].resource_count >= 0
                   /\ analytics'[i].cache_size_bytes = analytics[i].cache_size_bytes]_vars

\* Instance 1 has replaced the row of "a" and counts four rows; instance 2,
\* which counted none, has then removed the row of "c" and still counts
\* none; the table has two rows.
C35_Witness ==
    /\ op[1].kind = "store" /\ op[1].ret = Ok(4)
    /\ op[2].kind = "remove" /\ op[2].uri = "c" /\ op[2].ret = Ok(TRUE)
    /\ Cardinality(rows) = 2
    /\ \E r \in rows : r.uri = "a" /\ r.id = 4
    /\ analytics[1].resource_count = 4
    /\ analytics[1].cache_size_bytes > SumSizeBytes(rows)
    /\ analytics[2].resource_count = 0


----------------------------------------------------------------------------
(* Claims about the ResourceInfo of a round trip *)

\* C36: a get of a URI whose last write is a successful store, made before
\* that store's expiry, returns the ResourceInfo that was stored: the uri,
\* the name, the description, the mime type and the metadata map, with no
\* key added, removed or overwritten.
C36_InfoRoundTrip ==
    [][\A i \in StoreInst :
        LET u == op[i].uri IN
        ( /\ OkReturn(i, "get")
          /\ u \in DOMAIN lastWrite
          /\ BeforeExpiry(lastWrite[u], op[i].now) )
        => /\ op'[i].ret[2] # None
           /\ Unwrap(op'[i].ret[2]).info = lastWrite[u].res.info]_vars

\* The parts of the ResourceInfo that the row keeps as they were stored:
\* the uri, the mime type, and every key of the metadata but "encoding".
InfoPartsKept ==
    [][\A i \in StoreInst :
        LET u == op[i].uri IN
        ( /\ OkReturn(i, "get")
          /\ u \in DOMAIN lastWrite
          /\ BeforeExpiry(lastWrite[u], op[i].now) )
        => LET got == Unwrap(op'[i].ret[2]).info
               put == lastWrite[u].res.info
           IN  /\ got.uri = put.uri
               /\ got.mime_type = put.mime_type
               /\ DOMAIN got.metadata \ {"encoding"} = DOMAIN put.metadata \ {"encoding"}
               /\ \A k \in DOMAIN put.metadata \ {"encoding"} :
                     got.metadata[k] = put.metadata[k]]_vars


----------------------------------------------------------------------------
(* Claims about the order of the timestamps of a row *)

\* C37: in every reachable state, with gets and stores of several instances
\* on one storage file, every row has accessed_at >= created_at, and the
\* accessed_at of a row never decreases while the row exists.
C37_AccessedNeverBehind ==
    /\ [](\A r \in rows : r.accessed_at >= r.created_at)
    /\ [][\A r \in rows : \A q \in rows' :
            q.id = r.id => q.accessed_at >= r.accessed_at]_vars

\* What each writer guarantees on its own: a store writes a row whose two
\* timestamps are equal, and a get sets accessed_at to the time the get began.
WritersStampOwnClock ==
    [][\A i \in SharedInst :
        /\ (StoreCommits(i) /\ op'[i].ret[1] = "Ok")
              => \A q \in rows' \ rows : q.accessed_at = q.created_at
        /\ HitReturns(i)
              => \A q \in rows' \ rows : q.accessed_at = op[i].now]_vars


----------------------------------------------------------------------------
(* Claims about a sweep that fails *)

\* A step in which a cleanup_expired returns an error.
SweepFails(i) ==
    /\ op[i].kind = "cleanup" /\ op[i].phase # "done"
    /\ op'[i].phase = "done" /\ op'[i].ret[1] = "Err"

\* C38: a cleanup_expired that returns an error has changed nothing, whichever
\* of its steps failed: the step that fails changes neither the rows nor the
\* in-memory analytics, and no row has been deleted by the call before it
\* (op[i].n is the number of rows its DELETE removed).
C38_FailedSweepChangesNothing ==
    [][\A i \in Inst :
          SweepFails(i)
             => /\ rows' = rows
                /\ analytics' = analytics
                /\ op[i].n = 0]_vars

\* A failure of the DELETE itself leaves the store and the analytics as they
\* were, and the step that fails changes nothing in any case.
FailedDeleteChangesNothing ==
    [][\A i \in Inst :
          SweepFails(i)
             => /\ rows' = rows
                /\ analytics' = analytics
                /\ history' = history
                /\ op[i].phase = "delete" => op[i].n = 0]_vars


----------------------------------------------------------------------------
(* Claims about clear *)

\* A step in which a clear returns, with the given outcome.
ClearEnds(i, outcome) ==
    /\ op'[i] # op[i]
    /\ op'[i].kind = "clear" /\ op'[i].phase = "done"
    /\ op'[i].ret[1] = outcome

\* A step of a clear that deletes rows of table resources.
ClearDeletesRows(i) ==
    /\ op'[i] # op[i]
    /\ op'[i].kind = "clear"
    /\ rows' # rows

\* C39: clear is all-or-nothing: a clear that returns Ok leaves both tables
\* empty and the in-memory analytics zero, a clear that returns an error has
\* changed none of the three, and no state in between exists in which the
\* resources are deleted while history rows remain.
C39_ClearAllOrNothing ==
    [][\A i \in Inst :
        /\ ClearEnds(i, "Ok")
              => /\ rows' = {} /\ history' = <<>>
                 /\ analytics'[i] = ZeroAnalytics(clock)
        /\ ClearEnds(i, "Err")
              => /\ rows' = rows /\ history' = history
                 /\ analytics' = analytics
        /\ ClearDeletesRows(i) => history' = <<>>]_vars

\* What holds of the two ends of a clear: the one that returns Ok has emptied
\* both tables and zeroed the analytics, and the step that returns an error
\* changes nothing itself.
ClearEndsAsStated ==
    [][\A i \in Inst :
        /\ ClearEnds(i, "Ok")
              => /\ rows' = {} /\ history' = <<>>
                 /\ analytics'[i] = ZeroAnalytics(clock)
        /\ ClearEnds(i, "Err")
              => /\ rows' = rows /\ history' = history
                 /\ analytics' = analytics]_vars

\* A clear whose second DELETE fails has returned an error with the
\* resources deleted, the history kept and the counters not reset.
ClearHalfDone ==
    \E i \in Inst :
        /\ op[i].kind = "clear" /\ op[i].phase = "done"
        /\ op[i].ret[1] = "Err"
        /\ rows = {} /\ history # <<>>
        /\ analytics[i].resource_count > 0


----------------------------------------------------------------------------
(* Claims about a storage file in a directory that does not exist *)

\* The construction of instance i returns in this step, its configuration
\* is valid, and the directory of its storage file does not exist.
ReturnsWithMissingParent(i) ==
    /\ result[i] = "none" /\ result'[i] # "none"
    /\ cfg[i].database_path # <<>>
    /\ ~BuilderPanics(cfg[i])
    /\ LET key == normalize_db_path(cfg[i].database_path, dirs, DOMAIN files)
       IN  /\ IsSome(KeyParent(key))
           /\ Unwrap(KeyParent(key)) \notin dirs

\* C40: a construction with a valid configuration whose storage file lies in
\* a directory that does not exist yet creates the directory and returns a
\* ready instance: the directory is made before a connection to the file has
\* to be opened.
C40_MissingParentIsCreated ==
    [][\A i \in Inst :
          ReturnsWithMissingParent(i) => result'[i] = "Ok"]_vars

\* What the construction does instead: it fails on the pool, having opened no
\* connection, and the directory is never made, so that no state has a
\* directory besides those of the start.
MissingParentFailsOnPool ==
    /\ [][\A i \in Inst :
            ReturnsWithMissingParent(i)
               => /\ result'[i] = "Pool"
                  /\ pc[i] \in {"build", "acquire"}
                  /\ dirs' = dirs /\ files' = files]_vars
    /\ [](dirs = { <<Root>>, Cwd })

============================================================================
